---------------------------- MODULE Spec2Model ----------------------------
(***************************************************************************)
(* A model of the ARM926EJ-S / Versatile PB support code:                  *)
(*   - the PL190 primary interrupt controller driver (interrupt.c),       *)
(*   - the IRQ trap dispatcher _pic_IrqHandler (interrupt.c),             *)
(*   - the boot-time relocation of the exception vectors, copy_vectors    *)
(*     (exception.c).                                                     *)
(*                                                                         *)
(* 32-bit register words that are used as bit masks are modelled as the   *)
(* set of the positions of their 1-bits (UL1 << irq is {irq},             *)
(* 0xFFFFFFFF is 0..31, | is \cup, & is \cap).  The vector control        *)
(* registers, which mix a 5-bit number and a flag, stay integers.         *)
(*                                                                         *)
(* Addresses are byte addresses of AddrBits bits; uint32_t values that    *)
(* take part in address arithmetic have the same width, as on the target. *)
(***************************************************************************)
EXTENDS Integers, Sequences, FiniteSets, TLC

(***************************************************************************)
(* Program constants.                                                      *)
(***************************************************************************)
BM_IRQ_PART == 31
BM_VECT_ENABLE_BIT == 32
NR_INTERRUPTS == 32
SW_PIC_IRQ == 1

\* NR_VECTORS is 16 in interrupt.c:118.  The slot table is scaled down so
\* that every allocator state, the full table included, is explored.
NR_VECTORS == 3

\* The width of an address and of uint32_t is 32 in the program.  It is
\* scaled down so that every placement of the vector block and of its
\* destination in the address space is explored, the top included.
AddrBits == 5
AddrSpace == 2 ^ AddrBits
WordBytes == 4
MAX_ADDRESS == AddrSpace - 1
MEM_DST_START == 0
Words == {a \in 0 .. MAX_ADDRESS : a % WordBytes = 0}

\* Function addresses.  NULL is address 0, which is also the reset value of
\* the address registers.  isrA and isrB stand for the application's ISRs.
NULL == "NULL"
__irq_dummyISR == "__irq_dummyISR"
isrA == "isrA"
isrB == "isrB"

\* No driver function is followed store by store.
NoStep ==
    [fn |-> "none", irq |-> 0, addr |-> NULL, slot |-> 0, stores |-> 0,
     val |-> {}]

AllBits == 0 .. 31
Slots == 0 .. (NR_VECTORS - 1)

\* Arguments the environment passes to the driver.  INVALID_IRQ stands for
\* every uint8_t value >= NR_INTERRUPTS.
INVALID_IRQ == NR_INTERRUPTS
\* The largest value of a uint8_t argument.
UINT8_MAX == 255
AllocIrqs == {0, 4, 9, 31}
CtlIrqs == {0, 4, 31}
NvIrqs == {2, 5, 9}
IsrArgs == {NULL, isrA, isrB}
FillIrqs == {0, 4, 9, 17, 31}
HistIrqs == AllocIrqs \cup FillIrqs

VARIABLES
    \* PL190 registers (struct _ARM926EJS_PIC_REGS)
    VICIRQSTATUS, VICINTSELECT, VICINTENABLE, VICSOFTINT,
    VICVECTADDR, VICDEFVECTADDR, VICVECTADDRn, VICVECTCNTLn,
    \* its two write-only registers: the word last stored into each
    VICINTENCLEAR, VICSOFTINTCLEAR,
    \* driver statics
    __isrNV, __irqVect, __irq_vector_mode,
    \* the last API call and its return value (history)
    call, ret,
    \* history of the allocator: lastSlot[l] is the slot the latest successful
    \* pic_registerVectorIrq(l, ..) returned, -1 once l was unregistered or
    \* the driver re-initialised; prevSlot is lastSlot[irq] as it was when the
    \* latest pic_registerVectorIrq(irq, ..) was called; relSlot is the slot a
    \* line held when the last three calls were its registration, its
    \* unregistration and its registration again, -1 otherwise; fill lists
    \* the calls of the table-filling scenario with their return values;
    \* lastIsr[l] is the address the latest successful
    \* pic_registerVectorIrq(l, ..) was given, NULL where lastSlot[l] is -1
    lastSlot, prevSlot, relSlot, fill, lastIsr,
    \* the control registers as they were when the last call was made
    preCtl,
    \* the non-vectored ISR table as it was when the last call was made
    preNV,
    \* _pic_IrqHandler: where the trap handler stands (pc), its loop counter
    \* irq (scanIrq) and the callback it is executing (running)
    pc, scanIrq, running,
    \* history of the current dispatch pass: the callbacks invoked so far,
    \* VICIRQSTATUS as it was at trap entry, and whether it changed since
    log, startStatus, changed,
    \* copy_vectors: the addresses of the linker symbols vectors_start and
    \* vectors_end, the destination dst_start, the memory words, the
    \* position in the function (cpc) and its two running pointers
    vectors_start, vectors_end, dst_start, mem, cpc, vectors_src, vectors_dst,
    \* history of copy_vectors: the addresses written, in order, and whether
    \* a word was read after the copy had overwritten it
    writes, staleRead,
    \* the CPU: the low byte of the CPSR (I, F, T and the mode bits) and of
    \* the SPSR of the IRQ mode, as sets of bit positions; the number of
    \* executions of _pic_IrqHandler that have begun and not returned
    cpsr, spsr_irq, inFlight,
    \* reset_handler: its position (bpc), the registers r0 and r1 it uses,
    \* and how many times it has called copy_vectors
    bpc, r0, r1, copyCalls,
    \* history: the lines pic_registerNonVectoredIrq was called for with
    \* valid arguments since the last pic_init(); the accesses the current
    \* dispatch pass made to the VICVECTADDR register
    nvBound, vaLog,
    \* the test tasks of start(): the index in Tests of the statement that is
    \* executed next (tpc), whether that statement has begun (inCall), the
    \* tick counter the ISRs increment, and the lines whose peripheral has
    \* been started with its interrupt enabled
    tpc, inCall, __tick_cntr, srcOn,
    \* the driver function that the foreground has begun and not finished,
    \* when its loads and stores are followed one by one: its arguments, the
    \* vector slot its loop is at, the stores made to that slot so far and
    \* the word it has loaded from a register
    fgStep

clrRegs == <<VICINTENCLEAR, VICSOFTINTCLEAR>>
hwVars == <<VICIRQSTATUS, VICINTSELECT, VICINTENABLE, VICSOFTINT,
            VICVECTADDR, VICDEFVECTADDR, VICVECTADDRn, VICVECTCNTLn, clrRegs>>
ctlRegs == <<VICINTSELECT, VICINTENABLE, VICSOFTINT>>
slotRegs == <<VICVECTADDRn, VICVECTCNTLn>>
swVars == <<__isrNV, __irqVect, __irq_vector_mode>>
histVars == <<lastSlot, prevSlot, relSlot, fill, lastIsr>>
cpuVars == <<cpsr, spsr_irq, inFlight>>
bootVars == <<bpc, r0, r1, copyCalls>>
trapVars == <<pc, scanIrq, running, log, startStatus, changed, vaLog, cpuVars>>
copyVars == <<vectors_start, vectors_end, dst_start, mem, cpc, vectors_src,
              vectors_dst, writes, staleRead>>
picVars == <<hwVars, swVars, call, ret, histVars, preCtl, preNV, trapVars,
            nvBound>>
taskVars == <<tpc, inCall, __tick_cntr, srcOn, fgStep>>
vars == <<picVars, copyVars, bootVars, taskVars>>

\* What ret holds after a function that returns nothing, and what call holds
\* for a function without a line number or without an address.
NoRet == -2
Call(fn, irq, addr) == [fn |-> fn, irq |-> irq, addr |-> addr]
NoIrq == -1
NoArg == "-"

(***************************************************************************)
(* copy_vectors (exception.c).  Pointers to uint32_t are byte addresses   *)
(* that are multiples of WordBytes; p + n moves by n words and wraps at   *)
(* the top of the address space.                                          *)
(***************************************************************************)
ToUnsigned(x) == x % AddrSpace
ToSigned(x) == IF x >= AddrSpace \div 2 THEN x - AddrSpace ELSE x

\* Mutant of PtrDiff: the byte difference is divided rounding towards zero.
PtrDiff_Trunc(p, q) ==
    LET d == ToSigned((p - q) % AddrSpace)
    IN  IF d >= 0 THEN d \div WordBytes ELSE -((-d) \div WordBytes)

\* p - q for two uint32_t pointers: a ptrdiff_t, the signed byte difference
\* shifted right arithmetically by two (the code the compiler emits for the
\* division by sizeof(uint32_t) in the build of the Makefile, which does
\* not optimise).
PtrDiff(p, q) == ToSigned((p - q) % AddrSpace) \div WordBytes

PtrAdd(p, n) == (p + WordBytes * n) % AddrSpace

InitialMem == [a \in Words |-> a]

src_begin_NoSwap == vectors_start
src_begin == IF vectors_start <= vectors_end THEN vectors_start ELSE vectors_end
src_end == IF vectors_end >= vectors_start THEN vectors_end ELSE vectors_start
block_len == ToUnsigned(PtrDiff(src_end, src_begin))

\* Mutant of SameStart: the test for equal start addresses is absent.
SameStart_NonZero == dst_start = src_begin /\ dst_start # 0
SameStart_Never == FALSE

\* if ( dst_start == src_begin ) return;
SameStart == dst_start = src_begin

\* Mutant of OverflowGuard: the test of the addressable range is absent.
OverflowGuard_Never == FALSE

\* if ( block_len > ((uint32_t* const) MAX_ADDRESS-dst_start) ) return;
\* The right-hand side is a ptrdiff_t that is converted to unsigned for the
\* comparison with the uint32_t block_len.
OverflowGuard == block_len > ToUnsigned(PtrDiff(MAX_ADDRESS, dst_start))

\* Mutant of CopyForward: the block is always copied from its begin.
CopyForward_OnlyBelow == dst_start < src_begin
CopyForward_Always == TRUE

\* if ( dst_start < src_begin || dst_start >= src_end )
CopyForward == dst_start < src_begin \/ dst_start >= src_end

\* The content of a pointer before its first assignment is never read; the
\* model marks it with a value that no address takes.
Unset == AddrSpace

\* The declarations and the tests of copy_vectors, up to the first loop test.
CopyStart ==
    /\ cpc = "start"
    /\ IF SameStart \/ OverflowGuard
       THEN /\ cpc' = "done"
            /\ UNCHANGED <<vectors_src, vectors_dst>>
       ELSE IF CopyForward
            THEN /\ cpc' = "fwd"
                 /\ vectors_src' = src_begin
                 /\ vectors_dst' = dst_start
            ELSE /\ cpc' = "bwd"
                 /\ vectors_src' = PtrAdd(src_end, -1)
                 /\ vectors_dst' = PtrAdd(PtrAdd(dst_start, block_len), -1)
    /\ UNCHANGED <<vectors_start, vectors_end, dst_start, mem, writes, staleRead>>

\* *vectors_dst = *vectors_src, the common part of the two loop bodies.
CopyWord ==
    /\ mem' = [mem EXCEPT ![vectors_dst] = mem[vectors_src]]
    /\ writes' = Append(writes, vectors_dst)
    /\ staleRead' = (staleRead \/ \E i \in 1 .. Len(writes) : writes[i] = vectors_src)

\* One test of while (vectors_src < src_end) and one execution of its body.
CopyFwdStep ==
    /\ cpc = "fwd"
    /\ IF vectors_src < src_end
       THEN /\ CopyWord
            /\ vectors_dst' = PtrAdd(vectors_dst, 1)
            /\ vectors_src' = PtrAdd(vectors_src, 1)
            /\ UNCHANGED cpc
       ELSE /\ cpc' = "done"
            /\ UNCHANGED <<mem, writes, staleRead, vectors_src, vectors_dst>>
    /\ UNCHANGED <<vectors_start, vectors_end, dst_start>>

CopyBwdStep_Strict ==
    /\ cpc = "bwd"
    /\ IF vectors_dst > dst_start
       THEN /\ CopyWord
            /\ vectors_dst' = PtrAdd(vectors_dst, -1)
            /\ vectors_src' = PtrAdd(vectors_src, -1)
            /\ UNCHANGED cpc
       ELSE /\ cpc' = "done"
            /\ UNCHANGED <<mem, writes, staleRead, vectors_src, vectors_dst>>
    /\ UNCHANGED <<vectors_start, vectors_end, dst_start>>

\* One test of while ( vectors_dst >= dst_start ) and one execution of its
\* body.
CopyBwdStep ==
    /\ cpc = "bwd"
    /\ IF vectors_dst >= dst_start
       THEN /\ CopyWord
            /\ vectors_dst' = PtrAdd(vectors_dst, -1)
            /\ vectors_src' = PtrAdd(vectors_src, -1)
            /\ UNCHANGED cpc
       ELSE /\ cpc' = "done"
            /\ UNCHANGED <<mem, writes, staleRead, vectors_src, vectors_dst>>
    /\ UNCHANGED <<vectors_start, vectors_end, dst_start>>

\* The memory when main() starts: reset_handler has called copy_vectors,
\* which moved the vector block from the upper half of the memory, where
\* the image is loaded, to MEM_DST_START.
VectorsInPlace ==
    /\ vectors_start = AddrSpace \div 2
    /\ vectors_end = AddrSpace \div 2 + 2 * WordBytes
    /\ dst_start = MEM_DST_START
    /\ mem = [a \in Words |->
                 IF a < MEM_DST_START + 2 * WordBytes
                 THEN InitialMem[a + AddrSpace \div 2] ELSE InitialMem[a]]
    /\ cpc = "done"
    /\ vectors_src = AddrSpace \div 2 + 2 * WordBytes
    /\ vectors_dst = MEM_DST_START + 2 * WordBytes
    /\ writes = <<MEM_DST_START, MEM_DST_START + WordBytes>>
    /\ staleRead = FALSE

(***************************************************************************)
(* State at reset: the controller's registers are cleared by the hardware *)
(* and the driver's statics are zero-initialised, so __isrNV holds NULL   *)
(* and __irqVect holds line 0 everywhere until pic_init() has run.        *)
(***************************************************************************)
ResetState ==
    /\ VICIRQSTATUS = {}
    /\ VICINTSELECT = {}
    /\ VICINTENABLE = {}
    /\ VICSOFTINT = {}
    /\ VICINTENCLEAR = {}
    /\ VICSOFTINTCLEAR = {}
    /\ VICVECTADDR = NULL
    /\ VICDEFVECTADDR = NULL
    /\ VICVECTADDRn = [s \in Slots |-> NULL]
    /\ VICVECTCNTLn = [s \in Slots |-> 0]
    /\ __isrNV = [i \in 0 .. (NR_INTERRUPTS - 1) |-> NULL]
    /\ __irqVect = [s \in Slots |-> 0]
    /\ __irq_vector_mode = 0
    /\ call = Call("reset", NoIrq, NoArg)
    /\ ret = NoRet
    /\ lastSlot = [l \in HistIrqs |-> -1]
    /\ prevSlot = -1
    /\ relSlot = -1
    /\ lastIsr = [l \in HistIrqs |-> NULL]
    /\ fill = << >>
    /\ preCtl = [select |-> {}, enable |-> {}, softint |-> {}]
    /\ preNV = [i \in 0 .. (NR_INTERRUPTS - 1) |-> NULL]
    /\ pc = "idle"
    /\ scanIrq = 0
    /\ running = NULL
    /\ log = << >>
    /\ startStatus = {}
    /\ changed = FALSE
    /\ nvBound = {}
    /\ vaLog = << >>
    /\ tpc = 1
    /\ inCall = FALSE
    /\ __tick_cntr = 0
    /\ srcOn = {}
    /\ fgStep = NoStep

Booted == call.fn # "reset"

(***************************************************************************)
(* Hardware semantics of the write-1-to-set / write-1-to-clear registers. *)
(***************************************************************************)
WriteIntEnable(reg, mask) == reg \cup mask
WriteIntEnClear(reg, mask) == reg \ mask
WriteSoftInt(reg, mask) == reg \cup mask
WriteSoftIntClear(reg, mask) == reg \ mask

\* UL1 << irq
Bit(irq) == {irq}

(***************************************************************************)
(* pic_init                                                                *)
(***************************************************************************)
\* Mutant of pic_init: the non-vectored ISR table is left as it is.
pic_init_NoIsrFill ==
    /\ VICINTSELECT' = {}
    /\ VICINTENCLEAR' = AllBits
    /\ VICINTENABLE' = WriteIntEnClear(VICINTENABLE, VICINTENCLEAR')
    /\ VICSOFTINTCLEAR' = AllBits
    /\ VICSOFTINT' = WriteSoftIntClear(VICSOFTINT, VICSOFTINTCLEAR')
    /\ VICDEFVECTADDR' = __irq_dummyISR
    /\ __irqVect' = [s \in Slots |-> -1]
    /\ __irq_vector_mode' = 0
    /\ call' = Call("pic_init", NoIrq, NoArg)
    /\ ret' = NoRet
    /\ UNCHANGED <<VICIRQSTATUS, VICVECTADDR, VICVECTADDRn, VICVECTCNTLn, __isrNV>>

pic_init ==
    /\ VICINTSELECT' = {}
    /\ VICINTENCLEAR' = AllBits
    /\ VICINTENABLE' = WriteIntEnClear(VICINTENABLE, VICINTENCLEAR')
    /\ VICSOFTINTCLEAR' = AllBits
    /\ VICSOFTINT' = WriteSoftIntClear(VICSOFTINT, VICSOFTINTCLEAR')
    /\ VICDEFVECTADDR' = __irq_dummyISR
    /\ __irqVect' = [s \in Slots |-> -1]
    /\ __isrNV' = [i \in 0 .. (NR_INTERRUPTS - 1) |-> __irq_dummyISR]
    /\ __irq_vector_mode' = 0
    /\ call' = Call("pic_init", NoIrq, NoArg)
    /\ ret' = NoRet
    /\ UNCHANGED <<VICIRQSTATUS, VICVECTADDR, VICVECTADDRn, VICVECTCNTLn>>

(***************************************************************************)
(* pic_registerNonVectoredIrq                                              *)
(***************************************************************************)
\* Mutant of RegNVValid: the ISR address is not checked.
RegNVValid_NoNullCheck(irq, addr) == irq < NR_INTERRUPTS

\* The argument check of pic_registerNonVectoredIrq.
RegNVValid(irq, addr) == irq < NR_INTERRUPTS /\ NULL # addr

pic_registerNonVectoredIrq(irq, addr) ==
    /\ call' = Call("pic_registerNonVectoredIrq", irq, addr)
    /\ ret' = NoRet
    /\ IF RegNVValid(irq, addr)
       THEN /\ __isrNV' = [__isrNV EXCEPT ![irq] = addr]
            /\ UNCHANGED <<hwVars, __irqVect, __irq_vector_mode>>
       ELSE UNCHANGED <<hwVars, swVars>>

(***************************************************************************)
(* The CPU (ARM926EJ-S).  Bit 7 of the CPSR masks IRQs, bits 0..4 hold    *)
(* the mode.  MSR changes the control byte in a privileged mode only; in  *)
(* User mode the write is ignored.                                        *)
(***************************************************************************)
IBit == {7}
FBit == {6}
TBit == {5}
ModeBits == 0 .. 4
MODE_USR == {4}
MODE_IRQ == {1, 4}
MODE_SVC == {0, 1, 4}

\* The CPSR after reset: Supervisor mode, IRQ and FIQ masked.
ResetCpsr == IBit \cup FBit \cup MODE_SVC

Privileged(c) == (c \cap ModeBits) # MODE_USR

\* Mutant of MsrCpsr: the write is ignored in every mode.
MsrCpsr_Ignored(c, val) == c

\* MSR cpsr, <reg> and MSR cpsr_c, <reg> executed with the CPSR being c.
MsrCpsr(c, val) == IF Privileged(c) THEN val ELSE c

\* Mutant of IrqEntryCpsr: the CPU does not mask IRQs when it takes one.
IrqEntryCpsr_NoMask(c) == ((c \ ModeBits) \ TBit) \cup MODE_IRQ

\* The CPSR the CPU sets up when it takes an IRQ exception.
IrqEntryCpsr(c) == (((c \ ModeBits) \ TBit) \cup MODE_IRQ) \cup IBit

IrqMasked == (cpsr \cap IBit) # {}

\* A nested entry, were there one, would be counted up to this depth.
MaxInFlight == 2

\* irq_enableIrqMode: MRS r0, cpsr; BIC r0, r0, #0x80; MSR cpsr_c, r0
irq_enableIrqMode ==
    /\ cpsr' = MsrCpsr(cpsr, cpsr \ IBit)
    /\ UNCHANGED <<spsr_irq, inFlight>>

\* irq_disableIrqMode: MRS r0, cpsr; ORR r0, r0, #0x80; MSR cpsr_c, r0
irq_disableIrqMode ==
    /\ cpsr' = MsrCpsr(cpsr, cpsr \cup IBit)
    /\ UNCHANGED <<spsr_irq, inFlight>>

(***************************************************************************)
(* reset_handler (vectors.s).  The instructions that use the CPSR, r0 or   *)
(* r1 and the calls, in program order; the loads of the stack pointers    *)
(* are left out.  bpc is the index of the instruction reset_handler        *)
(* executes next: while a called function runs, the one it returns to.    *)
(***************************************************************************)
\* The bits of an 8-bit immediate operand.
ImmBits(n) == {i \in 0 .. 7 : (n \div (2 ^ i)) % 2 = 1}

Ins(op, rd, rn, imm) == [op |-> op, rd |-> rd, rn |-> rn, imm |-> imm]

\* Mutant of ResetHandler: the earlier reset_handler, which sets up the IRQ
\* mode stack, returns to Supervisor mode with IRQs unmasked and calls the
\* application.
ResetHandler_Earlier ==
    << Ins("BL", "copy_vectors", NoArg, NoArg),
       Ins("MRS", "r0", NoArg, NoArg),
       Ins("BIC", "r1", "r0", ImmBits(31)),
       Ins("ORR", "r1", "r1", ImmBits(18)),
       Ins("MSR", NoArg, "r1", NoArg),
       Ins("BIC", "r0", "r0", ImmBits(128)),
       Ins("MSR", NoArg, "r0", NoArg),
       Ins("BL", "main", NoArg, NoArg),
       Ins("B", ".", NoArg, NoArg) >>

ResetHandler ==
    << Ins("BL", "copy_vectors", NoArg, NoArg),
       Ins("MRS", "r0", NoArg, NoArg),
       Ins("ORR", "r1", "r0", ImmBits(80)),
       Ins("MSR", NoArg, "r1", NoArg),
       Ins("BIC", "r1", "r0", ImmBits(31)),
       Ins("ORR", "r1", "r1", ImmBits(18)),
       Ins("ORR", "r1", "r1", ImmBits(80)),
       Ins("MSR", NoArg, "r1", NoArg),
       Ins("BIC", "r1", "r0", ImmBits(31)),
       Ins("ORR", "r1", "r1", ImmBits(16)),
       Ins("ORR", "r1", "r1", ImmBits(128)),
       Ins("MSR", NoArg, "r1", NoArg),
       Ins("BL", "_init", NoArg, NoArg),
       Ins("BL", "main", NoArg, NoArg),
       Ins("B", ".", NoArg, NoArg) >>

\* main() runs: reset_handler has called it and it has not returned.
InMain == bpc = Len(ResetHandler)

Reg(name) == IF name = "r0" THEN r0 ELSE r1

\* The instruction to execute, once the function called last has returned.
Fetch(op) ==
    /\ bpc < Len(ResetHandler)
    /\ cpc \in {"idle", "done"}
    /\ ResetHandler[bpc].op = op

\* BL copy_vectors
CallCopyVectors ==
    /\ Fetch("BL")
    /\ ResetHandler[bpc].rd = "copy_vectors"
    /\ bpc' = bpc + 1
    /\ copyCalls' = copyCalls + 1
    /\ cpc' = "start"
    /\ vectors_src' = Unset
    /\ vectors_dst' = Unset
    /\ UNCHANGED <<r0, r1, cpsr, vectors_start, vectors_end, dst_start, mem,
                   writes, staleRead>>

\* BL _init and BL main.  _init is not part of the sources; in User mode,
\* where it runs, it cannot change the control bits of the CPSR.
CallOther ==
    /\ Fetch("BL")
    /\ ResetHandler[bpc].rd # "copy_vectors"
    /\ bpc' = bpc + 1
    /\ UNCHANGED <<r0, r1, cpsr, copyCalls, copyVars>>

\* MRS rd, cpsr
ExecMRS ==
    /\ Fetch("MRS")
    /\ bpc' = bpc + 1
    /\ r0' = IF ResetHandler[bpc].rd = "r0" THEN cpsr ELSE r0
    /\ r1' = IF ResetHandler[bpc].rd = "r1" THEN cpsr ELSE r1
    /\ UNCHANGED <<cpsr, copyCalls, copyVars>>

\* ORR rd, rn, #imm and BIC rd, rn, #imm
ExecAlu ==
    /\ \/ Fetch("ORR")
       \/ Fetch("BIC")
    /\ LET ins == ResetHandler[bpc]
           val == IF ins.op = "ORR" THEN Reg(ins.rn) \cup ins.imm
                  ELSE Reg(ins.rn) \ ins.imm
       IN  /\ r0' = IF ins.rd = "r0" THEN val ELSE r0
           /\ r1' = IF ins.rd = "r1" THEN val ELSE r1
    /\ bpc' = bpc + 1
    /\ UNCHANGED <<cpsr, copyCalls, copyVars>>

\* MSR cpsr, rn
ExecMSR ==
    /\ Fetch("MSR")
    /\ bpc' = bpc + 1
    /\ cpsr' = MsrCpsr(cpsr, Reg(ResetHandler[bpc].rn))
    /\ UNCHANGED <<r0, r1, copyCalls, copyVars>>

(***************************************************************************)
(* _pic_IrqHandler, entered through irq_handler when the CPU takes an IRQ. *)
(* One step per register access and per callback call or return.          *)
(***************************************************************************)
\* Mutant of IrqBitSet: the status word is tested without the bit mask.
IrqBitSet_NoMask(irq) == VICIRQSTATUS # {}

\* Mutant of IrqBitSet: the bit is taken from a copy of the status word made
\* at trap entry instead of from the register.
IrqBitSet_Snapshot(irq) == (startStatus \cap Bit(irq)) # {}

\* The test of the irq'th bit: pPicReg->VICIRQSTATUS & (UL1 << irq), a read
\* of the volatile status register made in every iteration of the loop.
IrqBitSet(irq) == (VICIRQSTATUS \cap Bit(irq)) # {}

\* The enable bit (bit 5) of the control register of slot s, and the line
\* its low five bits encode.
SlotEnabled(s) == (VICVECTCNTLn[s] \div BM_VECT_ENABLE_BIT) % 2 = 1
SlotLine(s) == VICVECTCNTLn[s] % BM_VECT_ENABLE_BIT

\* The PL190's vector logic: the enabled slots whose line is a pending IRQ,
\* the one with the highest priority (lowest index) among them, and the
\* value a read of VICVECTADDR returns: that slot's address register, or
\* the default vector address when there is no such slot.
VectPending == {s \in Slots : SlotEnabled(s) /\ SlotLine(s) \in VICIRQSTATUS}
VectSlot == IF VectPending = {} THEN -1
            ELSE CHOOSE s \in VectPending : \A t \in VectPending : s <= t
VectAddrRead == IF VectSlot < 0 THEN VICDEFVECTADDR ELSE VICVECTADDRn[VectSlot]

\* The value _pic_IrqHandler stores into VICVECTADDR.
AllOnes == "0xFFFFFFFF"

\* Trap entry.  The CPU takes the IRQ when the controller requests one and
\* the CPSR does not mask it; it saves the CPSR, masks IRQs and enters
\* irq_handler, which calls _pic_IrqHandler; the handler reads
\* __irq_vector_mode and picks its branch.
TrapEntry ==
    /\ ~IrqMasked
    /\ inFlight < MaxInFlight
    /\ VICIRQSTATUS # {}
    /\ spsr_irq' = cpsr
    /\ cpsr' = IrqEntryCpsr(cpsr)
    /\ inFlight' = inFlight + 1
    /\ pc' = IF __irq_vector_mode = 0 THEN "scan" ELSE "vect"
    /\ scanIrq' = 0
    /\ log' = << >>
    /\ vaLog' = << >>
    /\ startStatus' = VICIRQSTATUS
    /\ changed' = FALSE
    /\ UNCHANGED <<hwVars, swVars, call, ret, running>>

\* Mutant of ScanStep: a line whose entry is the dummy routine is passed over.
ScanStep_SkipDummy ==
    /\ pc = "scan"
    /\ IF scanIrq < NR_INTERRUPTS
       THEN IF IrqBitSet(scanIrq) /\ __isrNV[scanIrq] # __irq_dummyISR
            THEN /\ pc' = "isr"
                 /\ running' = __isrNV[scanIrq]
                 /\ log' = Append(log, [irq |-> scanIrq, isr |-> __isrNV[scanIrq]])
                 /\ UNCHANGED scanIrq
            ELSE /\ scanIrq' = scanIrq + 1
                 /\ UNCHANGED <<pc, running, log>>
       ELSE /\ pc' = "done"
            /\ UNCHANGED <<scanIrq, running, log>>
    /\ UNCHANGED <<hwVars, swVars, call, ret, startStatus, changed, vaLog, cpuVars>>

\* One iteration of the for loop up to the call of the callback.
ScanStep ==
    /\ pc = "scan"
    /\ IF scanIrq < NR_INTERRUPTS
       THEN IF IrqBitSet(scanIrq)
            THEN /\ pc' = "isr"
                 /\ running' = __isrNV[scanIrq]
                 /\ log' = Append(log, [irq |-> scanIrq, isr |-> __isrNV[scanIrq]])
                 /\ UNCHANGED scanIrq
            ELSE /\ scanIrq' = scanIrq + 1
                 /\ UNCHANGED <<pc, running, log>>
       ELSE /\ pc' = "done"
            /\ UNCHANGED <<scanIrq, running, log>>
    /\ UNCHANGED <<hwVars, swVars, call, ret, startStatus, changed, vaLog, cpuVars>>

\* Mutant of IsrReturn: the loop tests the same line again after its callback.
IsrReturn_NoAdvance ==
    /\ pc = "isr"
    /\ pc' = "scan"
    /\ running' = NULL
    /\ UNCHANGED <<hwVars, swVars, call, ret, scanIrq, log, startStatus, changed,
                   vaLog, cpuVars>>

\* Mutant of IsrReturn: the handling mode is tested again after each callback.
IsrReturn_RereadMode ==
    /\ pc = "isr"
    /\ pc' = IF __irq_vector_mode = 0 THEN "scan" ELSE "vect"
    /\ running' = NULL
    /\ scanIrq' = scanIrq + 1
    /\ UNCHANGED <<hwVars, swVars, call, ret, log, startStatus, changed, vaLog,
                   cpuVars>>

\* The callback returns and the loop goes on with ++irq.
IsrReturn ==
    /\ pc = "isr"
    /\ pc' = "scan"
    /\ running' = NULL
    /\ scanIrq' = scanIrq + 1
    /\ UNCHANGED <<hwVars, swVars, call, ret, log, startStatus, changed, vaLog,
                   cpuVars>>

\* isrAddr = (IsrPrototype) pPicReg->VICVECTADDR; (*isrAddr)();
VectRead ==
    /\ pc = "vect"
    /\ pc' = "visr"
    /\ VICVECTADDR' = VectAddrRead
    /\ running' = VectAddrRead
    /\ log' = Append(log, [irq |-> IF VectSlot < 0 THEN -1 ELSE SlotLine(VectSlot),
                           isr |-> VectAddrRead])
    /\ vaLog' = Append(vaLog, "read")
    /\ UNCHANGED <<VICIRQSTATUS, clrRegs, ctlRegs, VICDEFVECTADDR, slotRegs, swVars, call,
                   ret, scanIrq, startStatus, changed, cpuVars>>

\* Mutant of VectIsrReturn: the handler returns without the final store.
VectIsrReturn_NoWrite ==
    /\ pc = "visr"
    /\ pc' = "done"
    /\ running' = NULL
    /\ UNCHANGED <<hwVars, swVars, call, ret, scanIrq, log, startStatus, changed,
                   vaLog, cpuVars>>

\* The routine at the vector address returns.
VectIsrReturn ==
    /\ pc = "visr"
    /\ pc' = "vwrite"
    /\ running' = NULL
    /\ UNCHANGED <<hwVars, swVars, call, ret, scanIrq, log, startStatus, changed,
                   vaLog, cpuVars>>

\* pPicReg->VICVECTADDR = 0xFFFFFFFF;
VectWrite ==
    /\ pc = "vwrite"
    /\ pc' = "done"
    /\ VICVECTADDR' = AllOnes
    /\ vaLog' = Append(vaLog, "write")
    /\ UNCHANGED <<VICIRQSTATUS, clrRegs, ctlRegs, VICDEFVECTADDR, slotRegs, swVars, call,
                   ret, scanIrq, running, log, startStatus, changed, cpuVars>>

\* _pic_IrqHandler and irq_handler return; the return from the exception
\* restores the CPSR from the SPSR.
TrapExit ==
    /\ pc = "done"
    /\ pc' = "idle"
    /\ cpsr' = spsr_irq
    /\ inFlight' = inFlight - 1
    /\ scanIrq' = 0
    /\ log' = << >>
    /\ vaLog' = << >>
    /\ startStatus' = {}
    /\ changed' = FALSE
    /\ UNCHANGED <<hwVars, swVars, call, ret, running, spsr_irq>>

(***************************************************************************)
(* pic_enableInterrupt, pic_disableInterrupt, pic_disableAllInterrupts,    *)
(* pic_isInterruptEnabled                                                  *)
(***************************************************************************)
\* Mutant of DisableMask: every bit of the mask is set.
DisableMask_All(irq) == AllBits

\* Mutant of DisableMask: the register is updated with |=, the read
\* giving back the word stored last.
DisableMask_ReadModify(irq) == VICINTENCLEAR \cup Bit(irq)

\* The mask pic_disableInterrupt stores into VICINTENCLEAR.
DisableMask(irq) == Bit(irq)

\* Mutant of pic_enableInterrupt: the line number is not checked.
pic_enableInterrupt_NoCheck(irq) ==
    /\ call' = Call("pic_enableInterrupt", irq, NoArg)
    /\ ret' = NoRet
    /\ VICINTENABLE' = WriteIntEnable(VICINTENABLE, VICINTENABLE \cup Bit(irq))
    /\ UNCHANGED <<VICIRQSTATUS, clrRegs, VICINTSELECT, VICSOFTINT, VICVECTADDR,
                   VICDEFVECTADDR, slotRegs, swVars>>

pic_enableInterrupt(irq) ==
    /\ call' = Call("pic_enableInterrupt", irq, NoArg)
    /\ ret' = NoRet
    /\ IF irq < NR_INTERRUPTS
       THEN /\ VICINTENABLE' = WriteIntEnable(VICINTENABLE, VICINTENABLE \cup Bit(irq))
            /\ UNCHANGED <<VICIRQSTATUS, clrRegs, VICINTSELECT, VICSOFTINT, VICVECTADDR,
                           VICDEFVECTADDR, slotRegs, swVars>>
       ELSE UNCHANGED <<hwVars, swVars>>

pic_disableInterrupt(irq) ==
    /\ call' = Call("pic_disableInterrupt", irq, NoArg)
    /\ ret' = NoRet
    /\ IF irq < NR_INTERRUPTS
       THEN /\ VICINTENCLEAR' = DisableMask(irq)
            /\ VICINTENABLE' = WriteIntEnClear(VICINTENABLE, VICINTENCLEAR')
            /\ UNCHANGED <<VICIRQSTATUS, VICSOFTINTCLEAR, VICINTSELECT, VICSOFTINT,
                           VICVECTADDR, VICDEFVECTADDR, slotRegs, swVars>>
       ELSE UNCHANGED <<hwVars, swVars>>

pic_disableAllInterrupts ==
    /\ call' = Call("pic_disableAllInterrupts", NoIrq, NoArg)
    /\ ret' = NoRet
    /\ VICINTENCLEAR' = AllBits
    /\ VICINTENABLE' = WriteIntEnClear(VICINTENABLE, VICINTENCLEAR')
    /\ UNCHANGED <<VICIRQSTATUS, VICSOFTINTCLEAR, VICINTSELECT, VICSOFTINT,
                   VICVECTADDR, VICDEFVECTADDR, slotRegs, swVars>>

\* The value pic_isInterruptEnabled(irq) returns in the current state.
IsInterruptEnabled(irq) ==
    IF irq < NR_INTERRUPTS /\ (VICINTENABLE \cap Bit(irq)) # {} THEN 1 ELSE 0

pic_isInterruptEnabled(irq) ==
    /\ call' = Call("pic_isInterruptEnabled", irq, NoArg)
    /\ ret' = IsInterruptEnabled(irq)
    /\ UNCHANGED <<hwVars, swVars>>

(***************************************************************************)
(* pic_getInterruptType, pic_setInterruptType                              *)
(***************************************************************************)
\* The value pic_getInterruptType(irq) returns in the current state.
GetInterruptType(irq) ==
    IF irq < NR_INTERRUPTS /\ (VICINTSELECT \cap Bit(irq)) = {} THEN 1 ELSE 0

pic_getInterruptType(irq) ==
    /\ call' = Call("pic_getInterruptType", irq, NoArg)
    /\ ret' = GetInterruptType(irq)
    /\ UNCHANGED <<hwVars, swVars>>

\* Mutant of pic_setInterruptType: the mask is stored into VICINTSELECT
\* instead of being combined with its contents.
pic_setInterruptType_Store(irq, toIrq) ==
    /\ call' = Call("pic_setInterruptType", irq, toIrq)
    /\ ret' = NoRet
    /\ IF irq < NR_INTERRUPTS
       THEN /\ VICINTSELECT' = IF toIrq # 0 THEN AllBits \ Bit(irq) ELSE Bit(irq)
            /\ UNCHANGED <<VICIRQSTATUS, clrRegs, VICINTENABLE, VICSOFTINT, VICVECTADDR,
                           VICDEFVECTADDR, slotRegs, swVars>>
       ELSE UNCHANGED <<hwVars, swVars>>

\* toIrq is passed in the addr field of the call record.
pic_setInterruptType(irq, toIrq) ==
    /\ call' = Call("pic_setInterruptType", irq, toIrq)
    /\ ret' = NoRet
    /\ IF irq < NR_INTERRUPTS
       THEN /\ VICINTSELECT' = IF toIrq # 0 THEN VICINTSELECT \cap (AllBits \ Bit(irq))
                                            ELSE VICINTSELECT \cup Bit(irq)
            /\ UNCHANGED <<VICIRQSTATUS, clrRegs, VICINTENABLE, VICSOFTINT, VICVECTADDR,
                           VICDEFVECTADDR, slotRegs, swVars>>
       ELSE UNCHANGED <<hwVars, swVars>>

(***************************************************************************)
(* pic_setSoftwareInterrupt, pic_clearSoftwareInterrupt                    *)
(***************************************************************************)
pic_setSoftwareInterrupt ==
    /\ call' = Call("pic_setSoftwareInterrupt", NoIrq, NoArg)
    /\ ret' = NoRet
    /\ VICSOFTINT' = WriteSoftInt(VICSOFTINT, VICSOFTINT \cup Bit(SW_PIC_IRQ))
    /\ UNCHANGED <<VICIRQSTATUS, clrRegs, VICINTSELECT, VICINTENABLE, VICVECTADDR,
                   VICDEFVECTADDR, slotRegs, swVars>>

pic_clearSoftwareInterrupt ==
    /\ call' = Call("pic_clearSoftwareInterrupt", NoIrq, NoArg)
    /\ ret' = NoRet
    /\ VICSOFTINTCLEAR' = Bit(SW_PIC_IRQ)
    /\ VICSOFTINT' = WriteSoftIntClear(VICSOFTINT, VICSOFTINTCLEAR')
    /\ UNCHANGED <<VICIRQSTATUS, VICINTENCLEAR, VICINTSELECT, VICINTENABLE,
                   VICVECTADDR, VICDEFVECTADDR, slotRegs, swVars>>

(***************************************************************************)
(* pic_registerVectorIrq                                                   *)
(***************************************************************************)
\* Mutant of RegScan: the search never stops at a slot that already serves irq.
RECURSIVE RegScan_NoReuse(_, _, _)
RegScan_NoReuse(irq, cntr, empty) ==
    IF cntr >= NR_VECTORS THEN <<cntr, empty>>
    ELSE IF __irqVect[cntr] < 0
         THEN RegScan_NoReuse(irq, cntr + 1, IF empty < 0 THEN cntr ELSE empty)
         ELSE RegScan_NoReuse(irq, cntr + 1, empty)

\* Mutant of RegScan: the search stops at the first empty slot.
RECURSIVE RegScan_StopAtEmpty(_, _, _)
RegScan_StopAtEmpty(irq, cntr, empty) ==
    IF cntr >= NR_VECTORS THEN <<cntr, empty>>
    ELSE IF __irqVect[cntr] < 0
         THEN <<NR_VECTORS, cntr>>
         ELSE IF irq = __irqVect[cntr]
              THEN <<cntr, empty>>
              ELSE RegScan_StopAtEmpty(irq, cntr + 1, empty)

\* Mutant of RegScan: the last empty slot seen is remembered, not the first.
RECURSIVE RegScan_LastEmpty(_, _, _)
RegScan_LastEmpty(irq, cntr, empty) ==
    IF cntr >= NR_VECTORS THEN <<cntr, empty>>
    ELSE IF __irqVect[cntr] < 0
         THEN RegScan_LastEmpty(irq, cntr + 1, cntr)
         ELSE IF irq = __irqVect[cntr]
              THEN <<cntr, empty>>
              ELSE RegScan_LastEmpty(irq, cntr + 1, empty)

\* The search loop of pic_registerVectorIrq from position cntr on, with the
\* first empty slot seen so far; yields the final <<cntr, empty>>.
RECURSIVE RegScan(_, _, _)
RegScan(irq, cntr, empty) ==
    IF cntr >= NR_VECTORS THEN <<cntr, empty>>
    ELSE IF __irqVect[cntr] < 0
         THEN RegScan(irq, cntr + 1, IF empty < 0 THEN cntr ELSE empty)
         ELSE IF irq = __irqVect[cntr]
              THEN <<cntr, empty>>
              ELSE RegScan(irq, cntr + 1, empty)

\* Mutant of RegSlot: the empty slot found by the search is not used.
RegSlot_NoEmptyUse(irq) ==
    LET r == RegScan(irq, 0, -1)
    IN  IF r[1] >= NR_VECTORS THEN -1 ELSE r[1]

\* Mutant of RegSlot: the test for "no empty slot" is empty <= 0.
RegSlot_NoSlotZero(irq) ==
    LET r == RegScan(irq, 0, -1)
    IN  IF r[1] >= NR_VECTORS THEN (IF r[2] <= 0 THEN -1 ELSE r[2]) ELSE r[1]

\* The slot pic_registerVectorIrq settles on, -1 when there is none.
RegSlot(irq) ==
    LET r == RegScan(irq, 0, -1)
    IN  IF r[1] >= NR_VECTORS THEN r[2] ELSE r[1]

\* Mutant of RegCntl: the enable bit is not set.
RegCntl_NoEnable(irq) == irq

\* irq | BM_VECT_ENABLE_BIT, for irq < NR_INTERRUPTS.
RegCntl(irq) == irq + BM_VECT_ENABLE_BIT

pic_registerVectorIrq(irq, addr) ==
    /\ call' = Call("pic_registerVectorIrq", irq, addr)
    /\ IF irq >= NR_INTERRUPTS \/ addr = NULL
       THEN /\ ret' = -1
            /\ UNCHANGED <<hwVars, swVars>>
       ELSE LET cntr == RegSlot(irq)
            IN  IF cntr < 0
                THEN /\ ret' = -1
                     /\ UNCHANGED <<hwVars, swVars>>
                ELSE /\ __irqVect' = [__irqVect EXCEPT ![cntr] = irq]
                     /\ VICVECTADDRn' = [VICVECTADDRn EXCEPT ![cntr] = addr]
                     /\ VICVECTCNTLn' = [VICVECTCNTLn EXCEPT ![cntr] = RegCntl(irq)]
                     /\ ret' = cntr
                     /\ UNCHANGED <<VICIRQSTATUS, clrRegs, ctlRegs, VICVECTADDR,
                                    VICDEFVECTADDR, __isrNV, __irq_vector_mode>>

(***************************************************************************)
(* pic_unregisterVectorIrq, pic_unregisterAllVectorIrqs                    *)
(***************************************************************************)
\* Mutant of pic_unregisterVectorIrq: the shadow entry is not reset.
pic_unregisterVectorIrq_KeepShadow(irq) ==
    /\ call' = Call("pic_unregisterVectorIrq", irq, NoArg)
    /\ ret' = NoRet
    /\ IF irq >= NR_INTERRUPTS
       THEN UNCHANGED <<hwVars, swVars>>
       ELSE /\ VICVECTCNTLn' = [s \in Slots |->
                  IF irq # __irqVect[s] THEN VICVECTCNTLn[s] ELSE 0]
            /\ VICVECTADDRn' = [s \in Slots |->
                  IF irq # __irqVect[s] THEN VICVECTADDRn[s] ELSE __irq_dummyISR]
            /\ UNCHANGED <<VICIRQSTATUS, clrRegs, ctlRegs, VICVECTADDR,
                           VICDEFVECTADDR, swVars>>

\* Mutant of pic_unregisterVectorIrq: the loop stops at the first match.
pic_unregisterVectorIrq_FirstOnly(irq) ==
    /\ call' = Call("pic_unregisterVectorIrq", irq, NoArg)
    /\ ret' = NoRet
    /\ IF irq >= NR_INTERRUPTS
       THEN UNCHANGED <<hwVars, swVars>>
       ELSE LET match == {s \in Slots : irq = __irqVect[s]}
                first == {s \in match : \A t \in match : s <= t}
            IN  /\ VICVECTCNTLn' = [s \in Slots |->
                      IF s \in first THEN 0 ELSE VICVECTCNTLn[s]]
                /\ VICVECTADDRn' = [s \in Slots |->
                      IF s \in first THEN __irq_dummyISR ELSE VICVECTADDRn[s]]
                /\ __irqVect' = [s \in Slots |->
                      IF s \in first THEN -1 ELSE __irqVect[s]]
                /\ UNCHANGED <<VICIRQSTATUS, clrRegs, ctlRegs, VICVECTADDR,
                               VICDEFVECTADDR, __isrNV, __irq_vector_mode>>

pic_unregisterVectorIrq(irq) ==
    /\ call' = Call("pic_unregisterVectorIrq", irq, NoArg)
    /\ ret' = NoRet
    /\ IF irq >= NR_INTERRUPTS
       THEN UNCHANGED <<hwVars, swVars>>
       ELSE /\ VICVECTCNTLn' = [s \in Slots |->
                  IF irq # __irqVect[s] THEN VICVECTCNTLn[s] ELSE 0]
            /\ VICVECTADDRn' = [s \in Slots |->
                  IF irq # __irqVect[s] THEN VICVECTADDRn[s] ELSE __irq_dummyISR]
            /\ __irqVect' = [s \in Slots |->
                  IF irq # __irqVect[s] THEN __irqVect[s] ELSE -1]
            /\ UNCHANGED <<VICIRQSTATUS, clrRegs, ctlRegs, VICVECTADDR,
                           VICDEFVECTADDR, __isrNV, __irq_vector_mode>>

pic_unregisterAllVectorIrqs ==
    /\ call' = Call("pic_unregisterAllVectorIrqs", NoIrq, NoArg)
    /\ ret' = NoRet
    /\ VICVECTCNTLn' = [s \in Slots |-> 0]
    /\ VICVECTADDRn' = [s \in Slots |-> __irq_dummyISR]
    /\ __irqVect' = [s \in Slots |-> -1]
    /\ UNCHANGED <<VICIRQSTATUS, clrRegs, ctlRegs, VICVECTADDR,
                   VICDEFVECTADDR, __isrNV, __irq_vector_mode>>

(***************************************************************************)
(* pic_enableVectorIrq, pic_disableVectorIrq, pic_disableAllVectorIrqs     *)
(***************************************************************************)
\* Mutant of SetEnableBit: the register is overwritten with the enable bit.
SetEnableBit_Overwrite(cntl) == BM_VECT_ENABLE_BIT

SetEnableBit(cntl) ==
    IF (cntl \div BM_VECT_ENABLE_BIT) % 2 = 1 THEN cntl ELSE cntl + BM_VECT_ENABLE_BIT
ClearEnableBit(cntl) ==
    IF (cntl \div BM_VECT_ENABLE_BIT) % 2 = 1 THEN cntl - BM_VECT_ENABLE_BIT ELSE cntl

\* The first slot from cntr on whose shadow entry is irq, NR_VECTORS if none.
RECURSIVE EnableScan(_, _)
EnableScan(irq, cntr) ==
    IF cntr >= NR_VECTORS THEN cntr
    ELSE IF irq = __irqVect[cntr] THEN cntr ELSE EnableScan(irq, cntr + 1)

pic_enableVectorIrq(irq) ==
    /\ call' = Call("pic_enableVectorIrq", irq, NoArg)
    /\ IF irq >= NR_INTERRUPTS
       THEN /\ ret' = -1
            /\ UNCHANGED <<hwVars, swVars>>
       ELSE LET cntr == EnableScan(irq, 0)
            IN  /\ VICVECTCNTLn' =
                      IF cntr < NR_VECTORS
                      THEN [VICVECTCNTLn EXCEPT ![cntr] = SetEnableBit(@)]
                      ELSE VICVECTCNTLn
                /\ ret' = IF cntr < NR_VECTORS THEN cntr ELSE -1
                /\ UNCHANGED <<VICIRQSTATUS, clrRegs, ctlRegs, VICVECTADDR,
                               VICDEFVECTADDR,
                               VICVECTADDRn, swVars>>

pic_disableVectorIrq(irq) ==
    /\ call' = Call("pic_disableVectorIrq", irq, NoArg)
    /\ ret' = NoRet
    /\ IF irq >= NR_INTERRUPTS
       THEN UNCHANGED <<hwVars, swVars>>
       ELSE /\ VICVECTCNTLn' = [s \in Slots |->
                  IF irq = __irqVect[s] THEN ClearEnableBit(VICVECTCNTLn[s])
                                        ELSE VICVECTCNTLn[s]]
            /\ UNCHANGED <<VICIRQSTATUS, clrRegs, ctlRegs, VICVECTADDR, VICDEFVECTADDR,
                           VICVECTADDRn, swVars>>

pic_disableAllVectorIrqs_Zero ==
    /\ call' = Call("pic_disableAllVectorIrqs", NoIrq, NoArg)
    /\ ret' = NoRet
    /\ VICVECTCNTLn' = [s \in Slots |-> 0]
    /\ UNCHANGED <<VICIRQSTATUS, clrRegs, ctlRegs, VICVECTADDR, VICDEFVECTADDR,
                   VICVECTADDRn, swVars>>

pic_disableAllVectorIrqs ==
    /\ call' = Call("pic_disableAllVectorIrqs", NoIrq, NoArg)
    /\ ret' = NoRet
    /\ VICVECTCNTLn' = [s \in Slots |-> ClearEnableBit(VICVECTCNTLn[s])]
    /\ UNCHANGED <<VICIRQSTATUS, clrRegs, ctlRegs, VICVECTADDR, VICDEFVECTADDR,
                   VICVECTADDRn, swVars>>

(***************************************************************************)
(* _pic_set_irq_vector_mode, pic_setDefaultVectorAddr                      *)
(***************************************************************************)
_pic_set_irq_vector_mode(mode) ==
    /\ __irq_vector_mode' = mode
    /\ call' = Call("_pic_set_irq_vector_mode", mode, NoArg)
    /\ ret' = NoRet
    /\ UNCHANGED <<hwVars, __isrNV, __irqVect>>

pic_setDefaultVectorAddr(addr) ==
    /\ call' = Call("pic_setDefaultVectorAddr", NoIrq, addr)
    /\ ret' = NoRet
    /\ VICDEFVECTADDR' = IF NULL # addr THEN addr ELSE VICDEFVECTADDR
    /\ UNCHANGED <<VICIRQSTATUS, clrRegs, ctlRegs, VICVECTADDR, slotRegs, swVars>>

(***************************************************************************)
(* The vector slot allocator: the boot sequence calls pic_init() once,    *)
(* then the application calls the vectored-IRQ API in any order.          *)
(***************************************************************************)
\* Book-keeping of the history variables for the call just made.
ValidBind(c) ==
    /\ c.fn = "pic_registerVectorIrq"
    /\ c.irq < NR_INTERRUPTS
    /\ c.addr # NULL

AllocHistory ==
    /\ lastSlot' = [l \in HistIrqs |->
          IF ValidBind(call') /\ call'.irq = l /\ ret' >= 0 THEN ret'
          ELSE IF \/ call'.fn = "pic_unregisterVectorIrq" /\ call'.irq = l
                  \/ call'.fn \in {"pic_unregisterAllVectorIrqs", "pic_init"}
               THEN -1
               ELSE lastSlot[l]]
    /\ lastIsr' = [l \in HistIrqs |->
          IF ValidBind(call') /\ call'.irq = l /\ ret' >= 0 THEN call'.addr
          ELSE IF \/ call'.fn = "pic_unregisterVectorIrq" /\ call'.irq = l
                  \/ call'.fn \in {"pic_unregisterAllVectorIrqs", "pic_init"}
               THEN NULL
               ELSE lastIsr[l]]
    /\ prevSlot' = IF ValidBind(call') THEN lastSlot[call'.irq] ELSE -1
    /\ relSlot' =
          IF /\ call'.fn = "pic_unregisterVectorIrq"
             /\ ValidBind(call) /\ call.irq = call'.irq /\ ret >= 0
          THEN ret
          ELSE IF /\ ValidBind(call')
                  /\ call.fn = "pic_unregisterVectorIrq" /\ call.irq = call'.irq
               THEN relSlot
               ELSE -1

\* History of the non-vectored registrations.
NvHistory ==
    nvBound' =
        IF call'.fn = "pic_init" THEN {}
        ELSE IF /\ call'.fn = "pic_registerNonVectoredIrq"
                /\ call'.irq < NR_INTERRUPTS
                /\ call'.addr # NULL
             THEN nvBound \cup {call'.irq}
             ELSE nvBound

Api(op) ==
    /\ Booted
    /\ op
    /\ AllocHistory
    /\ NvHistory
    /\ UNCHANGED <<fill, preCtl, preNV, trapVars, copyVars, bootVars, taskVars>>

\* The CPSR when the application starts.  The repository has two startup
\* codes: reset_handler of vectors.s leaves the CPU in User mode with IRQs
\* masked, its earlier version in Supervisor mode with IRQs unmasked.
StartCpsr == IBit \cup FBit \cup MODE_USR
StartCpsrEarlier == FBit \cup MODE_SVC

\* The rest of the CPU state when the application starts; r0 and r1 are as
\* the startup code left them.
AppStarted ==
    /\ spsr_irq = {}
    /\ inFlight = 0
    /\ InMain
    /\ r0 = IF cpsr = StartCpsr THEN ResetCpsr ELSE StartCpsrEarlier
    /\ r1 = IF cpsr = StartCpsr THEN StartCpsr ELSE IBit \cup FBit \cup MODE_IRQ
    /\ copyCalls = 1

Init == ResetState /\ VectorsInPlace /\ cpsr = StartCpsr /\ AppStarted

\* The same with either startup code.
InitTrap ==
    /\ ResetState
    /\ VectorsInPlace
    /\ cpsr \in {StartCpsr, StartCpsrEarlier}
    /\ AppStarted

Boot ==
    /\ ~Booted
    /\ pic_init
    /\ NvHistory
    /\ UNCHANGED <<histVars, preCtl, preNV, trapVars, copyVars, bootVars, taskVars>>

Next ==
    \/ Boot
    \/ \E irq \in AllocIrqs \cup {INVALID_IRQ} : \E addr \in IsrArgs :
           Api(pic_registerVectorIrq(irq, addr))
    \/ \E irq \in AllocIrqs \cup {INVALID_IRQ} : Api(pic_unregisterVectorIrq(irq))
    \/ \E irq \in AllocIrqs \cup {INVALID_IRQ} : Api(pic_enableVectorIrq(irq))
    \/ \E irq \in AllocIrqs \cup {INVALID_IRQ} : Api(pic_disableVectorIrq(irq))
    \/ Api(pic_unregisterAllVectorIrqs)
    \/ Api(pic_disableAllVectorIrqs)

Spec == Init /\ [][Next]_vars

(***************************************************************************)
(* The vector slot API called without the boot sequence's pic_init()      *)
(* first: the functions do not check for it.  Until pic_init() runs the   *)
(* shadow table holds its load-time zeros, so every slot reads as bound   *)
(* to line 0.                                                              *)
(***************************************************************************)
EarlyIrqs == {0, 4, INVALID_IRQ}

Early(op) ==
    /\ op
    /\ AllocHistory
    /\ NvHistory
    /\ UNCHANGED <<fill, preCtl, preNV, trapVars, copyVars, bootVars, taskVars>>

NextEarly ==
    \/ Early(pic_init)
    \/ \E irq \in EarlyIrqs : \E addr \in {isrA, isrB} :
           Early(pic_registerVectorIrq(irq, addr))
    \/ \E irq \in EarlyIrqs : Early(pic_unregisterVectorIrq(irq))
    \/ \E irq \in EarlyIrqs : Early(pic_enableVectorIrq(irq))
    \/ \E irq \in EarlyIrqs : Early(pic_disableVectorIrq(irq))

SpecEarly == Init /\ [][NextEarly]_vars

(***************************************************************************)
(* The vector slot API with pic_init() called again at any time, as the   *)
(* test tasks do: each of them starts with pic_init(), whatever the task  *)
(* before it left in the controller.                                      *)
(***************************************************************************)
ReinitIrqs == {4, 9, INVALID_IRQ}

NextReinit ==
    \/ Boot
    \/ Api(pic_init)
    \/ \E irq \in ReinitIrqs : \E addr \in {NULL, isrA} :
           Api(pic_registerVectorIrq(irq, addr))
    \/ \E irq \in ReinitIrqs : Api(pic_unregisterVectorIrq(irq))
    \/ \E irq \in ReinitIrqs : Api(pic_enableVectorIrq(irq))
    \/ \E irq \in ReinitIrqs : Api(pic_disableVectorIrq(irq))
    \/ Api(pic_unregisterAllVectorIrqs)
    \/ Api(pic_disableAllVectorIrqs)

SpecReinit == Init /\ [][NextReinit]_vars

(***************************************************************************)
(* The table-filling scenario: after pic_init(), pic_registerVectorIrq is *)
(* called for lines that are all different, with nothing in between.      *)
(***************************************************************************)
FillLen == NR_VECTORS + 1

FillBind(irq, addr) ==
    /\ Booted
    /\ Len(fill) < FillLen
    /\ \A i \in 1 .. Len(fill) : fill[i].irq # irq
    /\ pic_registerVectorIrq(irq, addr)
    /\ AllocHistory
    /\ fill' = Append(fill, [irq |-> irq, ret |-> ret'])
    /\ NvHistory
    /\ UNCHANGED <<preCtl, preNV, trapVars, copyVars, bootVars, taskVars>>

NextFill ==
    \/ Boot
    \/ \E irq \in FillIrqs : \E addr \in {isrA, isrB} : FillBind(irq, addr)

SpecFill == Init /\ [][NextFill]_vars

(***************************************************************************)
(* The control API: after pic_init() the application enables, disables,   *)
(* classifies and queries lines, raises and clears the software interrupt *)
(* and may initialise the controller again, in any order.                 *)
(***************************************************************************)
CtlSnapshot ==
    preCtl' = [select |-> VICINTSELECT, enable |-> VICINTENABLE, softint |-> VICSOFTINT]

CtlApi(op) ==
    /\ Booted
    /\ op
    /\ CtlSnapshot
    /\ NvHistory
    /\ UNCHANGED <<histVars, preNV, trapVars, copyVars, bootVars, taskVars>>

NextCtl ==
    \/ Boot
    \/ CtlApi(pic_init)
    \/ \E irq \in CtlIrqs \cup {INVALID_IRQ} : CtlApi(pic_enableInterrupt(irq))
    \/ \E irq \in CtlIrqs \cup {INVALID_IRQ} : CtlApi(pic_disableInterrupt(irq))
    \/ CtlApi(pic_disableAllInterrupts)
    \/ \E irq \in CtlIrqs \cup {INVALID_IRQ} : CtlApi(pic_isInterruptEnabled(irq))
    \/ \E irq \in CtlIrqs \cup {INVALID_IRQ} : CtlApi(pic_getInterruptType(irq))
    \/ \E irq \in CtlIrqs \cup {INVALID_IRQ} : \E toIrq \in {0, 1, 2} :
           CtlApi(pic_setInterruptType(irq, toIrq))
    \/ CtlApi(pic_setSoftwareInterrupt)
    \/ CtlApi(pic_clearSoftwareInterrupt)

SpecCtl == Init /\ [][NextCtl]_vars

(***************************************************************************)
(* The non-vectored ISR table: pic_init() and pic_registerNonVectoredIrq  *)
(* in any order and with any arguments.                                    *)
(***************************************************************************)
RegApi(op) ==
    /\ Booted
    /\ op
    /\ preNV' = __isrNV
    /\ NvHistory
    /\ UNCHANGED <<histVars, preCtl, trapVars, copyVars, bootVars, taskVars>>

NextReg ==
    \/ Boot
    \/ RegApi(pic_init)
    \/ \E irq \in NvIrqs \cup {INVALID_IRQ} : \E addr \in IsrArgs :
           RegApi(pic_registerNonVectoredIrq(irq, addr))

SpecReg == Init /\ [][NextReg]_vars

(***************************************************************************)
(* Non-vectored dispatch.  The foreground registers ISRs while no trap is *)
(* in progress; the peripherals raise and drop their lines at any time,    *)
(* also while the handler runs.  The lines of NvIrqs are the only ones    *)
(* that are ever asserted, so a change of the status word is observable   *)
(* only by the reads of those bits: the model lets it happen while the    *)
(* handler is idle, while a callback runs, and right before such a read.  *)
(***************************************************************************)
LineChange(status) ==
    /\ Booted
    /\ status # VICIRQSTATUS
    /\ \/ pc = "idle"
       \/ pc = "isr"
       \/ pc = "scan" /\ scanIrq \in NvIrqs
       \/ pc = "vect"
       \/ pc = "visr"
    /\ VICIRQSTATUS' = status
    /\ changed' = (pc # "idle")
    /\ UNCHANGED <<VICINTSELECT, VICINTENABLE, VICSOFTINT, clrRegs, VICVECTADDR,
                   VICDEFVECTADDR, slotRegs, swVars, call, ret, histVars,
                   preCtl, preNV, pc, scanIrq, running, log, startStatus,
                   vaLog, cpuVars, nvBound, copyVars, bootVars, taskVars>>

Trap(step) ==
    step /\ UNCHANGED <<histVars, preCtl, preNV, nvBound, copyVars, bootVars, taskVars>>

\* The foreground masks or unmasks IRQs.
Cpu(op) ==
    /\ Booted
    /\ pc = "idle"
    /\ op
    /\ UNCHANGED <<hwVars, swVars, call, ret, histVars, preCtl, preNV, pc,
                   scanIrq, running, log, startStatus, changed, vaLog, nvBound,
                   copyVars, bootVars, taskVars>>

NextNV ==
    \/ Boot
    \/ \E irq \in NvIrqs \cup {INVALID_IRQ} : \E addr \in {NULL, isrA} :
           pc = "idle" /\ RegApi(pic_registerNonVectoredIrq(irq, addr))
    \/ \E status \in SUBSET NvIrqs : LineChange(status)
    \/ Cpu(irq_enableIrqMode)
    \/ Cpu(irq_disableIrqMode)
    \/ Trap(TrapEntry)
    \/ Trap(ScanStep)
    \/ Trap(IsrReturn)
    \/ Trap(TrapExit)

SpecNV == InitTrap /\ [][NextNV]_vars

(***************************************************************************)
(* Dispatch in either mode.  The foreground, while no trap is in progress, *)
(* initialises the controller (again), binds and unbinds vector slots,    *)
(* enables lines, sets the default vector address, selects the handling   *)
(* mode and masks or unmasks IRQs; the peripherals raise and drop the     *)
(* lines of VectIrqs at any time.                                          *)
(***************************************************************************)
VectIrqs == {4, 9}

Fg(op) == pc = "idle" /\ Api(op)

NextVect ==
    \/ Boot
    \/ Fg(pic_init)
    \/ \E irq \in VectIrqs : Fg(pic_registerVectorIrq(irq, isrA))
    \/ \E irq \in VectIrqs : Fg(pic_unregisterVectorIrq(irq))
    \/ \E irq \in VectIrqs : Fg(pic_enableInterrupt(irq))
    \/ \E mode \in {0, 1} : Fg(_pic_set_irq_vector_mode(mode))
    \/ \E addr \in {NULL, isrB} : Fg(pic_setDefaultVectorAddr(addr))
    \/ \E status \in SUBSET VectIrqs : LineChange(status)
    \/ Cpu(irq_enableIrqMode)
    \/ Cpu(irq_disableIrqMode)
    \/ Trap(TrapEntry)
    \/ Trap(ScanStep)
    \/ Trap(IsrReturn)
    \/ Trap(VectRead)
    \/ Trap(VectIsrReturn)
    \/ Trap(VectWrite)
    \/ Trap(TrapExit)

SpecVect == InitTrap /\ [][NextVect]_vars

(***************************************************************************)
(* The handling mode switched at any time: by the foreground between      *)
(* traps, and by an application ISR while _pic_IrqHandler is running it   *)
(* (_pic_set_irq_vector_mode is an ordinary function, and the flag is     *)
(* volatile because it is shared with the handler).                       *)
(***************************************************************************)
ModeArgs == {0, 1, 2}
IRQ_TIMER0 == 4

\* An operation called by the application ISR that _pic_IrqHandler invoked.
InIsr(op) == pc \in {"isr", "visr"} /\ running \in {isrA, isrB} /\ Api(op)

NextMode ==
    \/ Boot
    \/ Fg(pic_init)
    \/ Fg(pic_registerNonVectoredIrq(IRQ_TIMER0, isrA))
    \/ Fg(pic_registerVectorIrq(IRQ_TIMER0, isrB))
    \/ Fg(pic_enableInterrupt(IRQ_TIMER0))
    \/ \E mode \in ModeArgs : Fg(_pic_set_irq_vector_mode(mode))
    \/ \E mode \in ModeArgs : InIsr(_pic_set_irq_vector_mode(mode))
    \/ \E status \in SUBSET {IRQ_TIMER0} : LineChange(status)
    \/ Cpu(irq_enableIrqMode)
    \/ Cpu(irq_disableIrqMode)
    \/ Trap(TrapEntry)
    \/ Trap(ScanStep)
    \/ Trap(IsrReturn)
    \/ Trap(VectRead)
    \/ Trap(VectIsrReturn)
    \/ Trap(VectWrite)
    \/ Trap(TrapExit)

SpecMode == InitTrap /\ [][NextMode]_vars

(***************************************************************************)
(* Argument checking.  After pic_init() the application calls every        *)
(* operation that takes a line number, in any order, with a valid line,   *)
(* with the first invalid one and with the largest uint8_t.               *)
(***************************************************************************)
ArgIrqs == {4, INVALID_IRQ, UINT8_MAX}

NextArgs ==
    \/ Boot
    \/ \E irq \in ArgIrqs : Api(pic_enableInterrupt(irq))
    \/ \E irq \in ArgIrqs : Api(pic_disableInterrupt(irq))
    \/ \E irq \in ArgIrqs : Api(pic_isInterruptEnabled(irq))
    \/ \E irq \in ArgIrqs : Api(pic_getInterruptType(irq))
    \/ \E irq \in ArgIrqs : \E toIrq \in {0, 1} : Api(pic_setInterruptType(irq, toIrq))
    \/ \E irq \in ArgIrqs : \E addr \in {NULL, isrA} :
           Api(pic_registerNonVectoredIrq(irq, addr))
    \/ \E irq \in ArgIrqs : \E addr \in {NULL, isrA} :
           Api(pic_registerVectorIrq(irq, addr))
    \/ \E irq \in ArgIrqs : Api(pic_unregisterVectorIrq(irq))
    \/ \E irq \in ArgIrqs : Api(pic_enableVectorIrq(irq))
    \/ \E irq \in ArgIrqs : Api(pic_disableVectorIrq(irq))

SpecArgs == Init /\ [][NextArgs]_vars

(***************************************************************************)
(* The relocation of the vectors.  reset_handler calls copy_vectors once, *)
(* before anything else runs.  The linker decides where vectors_start and *)
(* vectors_end are and the port decides the destination (MEM_DST_START    *)
(* in the source): all three are any word addresses here.  Every memory   *)
(* word initially holds its own address, so that the origin of a copied   *)
(* word can be told.                                                      *)
(***************************************************************************)
InitCopy ==
    /\ ResetState
    /\ cpsr = ResetCpsr
    /\ spsr_irq = {}
    /\ inFlight = 0
    /\ bpc = 2
    /\ r0 = {}
    /\ r1 = {}
    /\ copyCalls = 1
    /\ vectors_start \in Words
    /\ vectors_end \in Words
    /\ dst_start \in Words
    /\ mem = InitialMem
    /\ cpc = "start"
    /\ vectors_src = Unset
    /\ vectors_dst = Unset
    /\ writes = << >>
    /\ staleRead = FALSE

Copy(step) == step /\ UNCHANGED <<picVars, bootVars, taskVars>>

NextCopy ==
    \/ Copy(CopyStart)
    \/ Copy(CopyFwdStep)
    \/ Copy(CopyBwdStep)

SpecCopy == InitCopy /\ [][NextCopy]_vars

(***************************************************************************)
(* The boot sequence: the CPU leaves reset at reset_handler, which calls   *)
(* copy_vectors, sets up the modes and calls main(); the application then *)
(* initialises the controller and masks or unmasks IRQs.  The linker      *)
(* decides where the vector block lies and the port where it goes; r0 and *)
(* r1 hold anything at reset.                                              *)
(***************************************************************************)
InitBoot ==
    /\ ResetState
    /\ cpsr = ResetCpsr
    /\ spsr_irq = {}
    /\ inFlight = 0
    /\ bpc = 1
    /\ r0 \in {{}, 0 .. 7}
    /\ r1 \in {{}, 0 .. 7}
    /\ copyCalls = 0
    /\ vectors_start \in Words
    /\ vectors_end \in Words
    /\ dst_start \in Words
    /\ mem = InitialMem
    /\ cpc = "idle"
    /\ vectors_src = Unset
    /\ vectors_dst = Unset
    /\ writes = << >>
    /\ staleRead = FALSE

BootStep(step) ==
    step /\ UNCHANGED <<hwVars, swVars, call, ret, histVars, preCtl, preNV, pc,
                        scanIrq, running, log, startStatus, changed, vaLog,
                        spsr_irq, inFlight, nvBound, taskVars>>

App(op) == InMain /\ op

NextBoot ==
    \/ BootStep(CallCopyVectors)
    \/ Copy(CopyStart)
    \/ Copy(CopyFwdStep)
    \/ Copy(CopyBwdStep)
    \/ BootStep(ExecMRS)
    \/ BootStep(ExecAlu)
    \/ BootStep(ExecMSR)
    \/ BootStep(CallOther)
    \/ App(Boot)
    \/ App(Cpu(irq_enableIrqMode))
    \/ App(Cpu(irq_disableIrqMode))

SpecBoot == InitBoot /\ [][NextBoot]_vars

\* C1: binding NR_VECTORS + 1 different lines right after pic_init(): the
\* first NR_VECTORS calls return pairwise different slot indices that
\* together cover 0 .. NR_VECTORS-1, and the call after them returns -1.
C1_FillThenNoSlot ==
    /\ \A i \in 1 .. Len(fill) :
          IF i <= NR_VECTORS THEN fill[i].ret \in Slots ELSE fill[i].ret = -1
    /\ \A i, j \in 1 .. Len(fill) :
          (i < j /\ j <= NR_VECTORS) => fill[i].ret # fill[j].ret
    /\ Len(fill) >= NR_VECTORS => {fill[i].ret : i \in 1 .. NR_VECTORS} = Slots

C1_Witness ==
    /\ Len(fill) = NR_VECTORS + 1
    /\ fill[NR_VECTORS + 1].ret = -1
    /\ ret = -1
    /\ \A s \in Slots : __irqVect[s] >= 0

\* C2: a valid pic_registerVectorIrq(line, isr) made while an earlier
\* registration of the same line still stands (no unregister of it and no
\* pic_init() since) returns the slot the earlier call returned, and leaves
\* that slot's address register holding isr and its enable bit set; a
\* registration made while no line is registered (as right after
\* pic_init()) returns slot 0.
C2_RebindSameSlot ==
    ValidBind(call) =>
        /\ prevSlot >= 0 =>
              /\ ret = prevSlot
              /\ VICVECTADDRn[ret] = call.addr
              /\ (VICVECTCNTLn[ret] \div BM_VECT_ENABLE_BIT) % 2 = 1
              /\ __irqVect[ret] = call.irq
        /\ (prevSlot < 0 /\ \A l \in HistIrqs : l # call.irq => lastSlot[l] = -1) =>
              ret = 0

C2_Witness ==
    /\ call = Call("pic_registerVectorIrq", 4, isrB)
    /\ prevSlot = 0
    /\ ret = 0
    /\ VICVECTADDRn[0] = isrB
    /\ VICVECTCNTLn[0] = 36

\* C5: for a line below 32 and whatever lines were enabled before, after
\* pic_disableInterrupt(line) pic_isInterruptEnabled(line) is 0, after
\* pic_enableInterrupt(line) it is nonzero, and in both cases every other
\* line is enabled exactly when it was before the call.
C5_EnableDisableOneLine ==
    (call.fn \in {"pic_enableInterrupt", "pic_disableInterrupt"}
        /\ call.irq < NR_INTERRUPTS) =>
        /\ call.fn = "pic_disableInterrupt" => IsInterruptEnabled(call.irq) = 0
        /\ call.fn = "pic_enableInterrupt" => IsInterruptEnabled(call.irq) # 0
        /\ \A l \in 0 .. (NR_INTERRUPTS - 1) :
              l # call.irq => ((l \in VICINTENABLE) <=> (l \in preCtl.enable))

C5_Witness ==
    /\ call = Call("pic_disableInterrupt", 4, NoArg)
    /\ preCtl.enable = {0, 4, 31}
    /\ VICINTENABLE = {0, 31}

\* The elements of a set of numbers as an ascending sequence.
RECURSIVE AscSeq(_)
AscSeq(S) ==
    IF S = {} THEN << >>
    ELSE LET m == CHOOSE x \in S : \A y \in S : x <= y
         IN  <<m>> \o AscSeq(S \ {m})

LoggedIrqs == {log[i].irq : i \in 1 .. Len(log)}

\* C3: in a non-vectored dispatch pass during which the pending-status word
\* does not change, the callbacks invoked so far are those registered for
\* the asserted lines the scan has reached, in ascending line order, one
\* invocation per line and none for a line that is not asserted; a callback
\* is started only when no other is running.  At the end of the pass every
\* asserted line has been served (pending {2,5,9}: ISR(2), ISR(5), ISR(9)).
C3_AscendingOncePerLine ==
    (pc \in {"scan", "isr", "done"} /\ ~changed) =>
        LET reached == {l \in startStatus : l < scanIrq \/ (pc = "isr" /\ l = scanIrq)}
            order == AscSeq(reached)
        IN  /\ log = [i \in 1 .. Len(order) |->
                        [irq |-> order[i], isr |-> __isrNV[order[i]]]]
            /\ pc = "isr" => running = __isrNV[scanIrq]
            /\ pc # "isr" => running = NULL
            /\ pc = "done" => reached = startStatus

C3_Witness ==
    /\ pc = "done"
    /\ ~changed
    /\ startStatus = {2, 5, 9}
    /\ __isrNV[2] = isrA /\ __isrNV[5] = __irq_dummyISR /\ __isrNV[9] = isrA
    /\ log = << [irq |-> 2, isr |-> isrA], [irq |-> 5, isr |-> __irq_dummyISR],
                [irq |-> 9, isr |-> isrA] >>

\* C4 as stated: the callbacks a pass invokes are those of the lines that
\* were pending when the pass started, whatever happens to the lines while
\* the pass runs.
C4_StatusReadOnce ==
    pc = "done" => LoggedIrqs = startStatus

\* C4 as amended: the handler reads the status register anew for every bit
\* position.  Whether line irq is served in this pass is decided by the
\* value the register holds when the scan reaches position irq: the callback
\* is invoked exactly when the bit is set at that moment, also for a line
\* asserted after the pass began.
C4_StatusReadPerBit ==
    [][ (pc = "scan" /\ scanIrq < NR_INTERRUPTS
            /\ (pc' # pc \/ scanIrq' # scanIrq)) =>
          IF scanIrq \in VICIRQSTATUS
          THEN /\ pc' = "isr"
               /\ scanIrq' = scanIrq
               /\ log' = Append(log, [irq |-> scanIrq, isr |-> __isrNV[scanIrq]])
          ELSE /\ pc' = "scan"
               /\ scanIrq' = scanIrq + 1
               /\ log' = log ]_vars

C4_Witness ==
    /\ pc = "done"
    /\ startStatus = {2}
    /\ LoggedIrqs = {2, 9}

\* C6: pic_registerNonVectoredIrq(line, isr) with isr = NULL or line >= 32
\* leaves every entry of the non-vectored ISR table as it was; with valid
\* arguments entry line becomes isr, whatever it held, and the other
\* entries stay as they were.
C6_RegisterNonVectored ==
    call.fn = "pic_registerNonVectoredIrq" =>
        IF call.addr = NULL \/ call.irq >= NR_INTERRUPTS
        THEN __isrNV = preNV
        ELSE /\ __isrNV[call.irq] = call.addr
             /\ \A l \in 0 .. (NR_INTERRUPTS - 1) :
                   l # call.irq => __isrNV[l] = preNV[l]

C6_Witness ==
    /\ call = Call("pic_registerNonVectoredIrq", 5, isrB)
    /\ preNV[5] = isrA
    /\ __isrNV[5] = isrB
    /\ __isrNV[2] = isrA

\* The length of the source block and the two facts the relocation claims
\* speak of, in plain (unbounded) arithmetic.
LenBytes == src_end - src_begin
Overflows == dst_start + LenBytes > MAX_ADDRESS
DestHoldsCopy ==
    \A k \in 0 .. (LenBytes \div WordBytes - 1) :
        /\ dst_start + WordBytes * k \in Words
        /\ mem[dst_start + WordBytes * k] = InitialMem[src_begin + WordBytes * k]

\* C7: when the destination equals the start of the normalised source
\* range, copy_vectors writes nothing, wherever the range lies and whatever
\* its length.
C7_SameStartNoWrite ==
    dst_start = src_begin => (writes = << >> /\ mem = InitialMem)

C7_Witness ==
    /\ cpc = "done"
    /\ dst_start = src_begin
    /\ dst_start = 8
    /\ vectors_start = 20 /\ vectors_end = 8
    /\ writes = << >>

\* C8: when the destination lies strictly inside the source range and
\* dst_start plus the length of the block does not overflow the address
\* space, the words at the destination are, after the copy, the words the
\* source range held before it.
C8_OverlapCopy ==
    (cpc = "done" /\ src_begin < dst_start /\ dst_start < src_end /\ ~Overflows)
        => DestHoldsCopy

C8_Witness ==
    /\ cpc = "done"
    /\ src_begin = 4 /\ src_end = 16 /\ dst_start = 8
    /\ writes = <<16, 12, 8>>
    /\ mem[8] = 4 /\ mem[12] = 8 /\ mem[16] = 12

C10_OverflowNoWrite ==
    /\ Overflows => (writes = << >> /\ mem = InitialMem)
    /\ \A i \in 1 .. Len(writes) :
          /\ dst_start <= writes[i]
          /\ writes[i] + WordBytes <= dst_start + LenBytes
          /\ dst_start + LenBytes <= MAX_ADDRESS + 1

C10_Witness ==
    /\ cpc = "done"
    /\ vectors_start = 0 /\ vectors_end = 12
    /\ dst_start = 24
    /\ Overflows
    /\ writes = << >>

\* C11: in every state the public operations reach, pic_init() called
\* again after slots were bound included, every vector slot whose shadow
\* entry is empty (negative) has the enable bit of its control register
\* cleared.
C11_EmptySlotDisabled ==
    Booted => \A s \in Slots : __irqVect[s] < 0 => ~SlotEnabled(s)

\* C12: after pic_init(), whatever the sequence of calls of the vector slot
\* API, no interrupt line is held by more than one entry of the shadow table
\* __irqVect.
C12_OneSlotPerLine ==
    Booted =>
        \A s, t \in Slots :
            (s # t /\ __irqVect[s] >= 0) => __irqVect[s] # __irqVect[t]

\* Line 4 is registered again while a slot below its own is empty.
C12_Witness ==
    /\ call = Call("pic_registerVectorIrq", 4, isrB)
    /\ ret = 1
    /\ __irqVect[0] = -1
    /\ __irqVect[1] = 4

\* C13: after pic_init(), whatever pic_registerNonVectoredIrq calls and
\* dispatch passes follow, each of the 32 entries of the non-vectored ISR
\* table holds a routine (none is NULL), and the entry of a line for which
\* no registration with valid arguments was made since pic_init() holds
\* the dummy routine __irq_dummyISR.
C13_TableNeverNull ==
    Booted =>
        \A l \in 0 .. (NR_INTERRUPTS - 1) :
            /\ __isrNV[l] # NULL
            /\ l \notin nvBound => __isrNV[l] = __irq_dummyISR

\* A registration of line 5 with a NULL routine was refused, line 2 is
\* registered, and a dispatch pass then served line 5.
C13_Witness ==
    /\ call = Call("pic_registerNonVectoredIrq", 5, NULL)
    /\ nvBound = {2}
    /\ __isrNV[2] = isrA
    /\ pc = "done"
    /\ [irq |-> 5, isr |-> __irq_dummyISR] \in {log[i] : i \in 1 .. Len(log)}

\* C14: in vectored mode, with the default vector address as pic_init()
\* programmed it and in any state the public operations reach, a later
\* pic_init() included: when the only pending lines are enabled lines that
\* no entry of the shadow table __irqVect holds, the routine the dispatcher
\* invokes is the dummy routine __irq_dummyISR.
C14_UnboundReachesDummy ==
    (/\ pc = "visr"
     /\ ~changed
     /\ startStatus \subseteq VICINTENABLE
     /\ VICDEFVECTADDR = __irq_dummyISR
     /\ \A l \in startStatus : \A s \in Slots : __irqVect[s] # l)
        => running = __irq_dummyISR

\* C15 as stated: in non-vectored mode the dispatch pass invokes no callback
\* for a pending line for which no ISR was registered since pic_init().
C15_UnregisteredNotServed ==
    \A i \in 1 .. Len(log) : log[i].irq \in nvBound

\* C15 as amended: in non-vectored mode a pending line for which no ISR was
\* registered since pic_init() is served by the dummy routine: the pass
\* invokes __irq_dummyISR for it, once if the line stays asserted during
\* the pass, and never an application's ISR or a NULL address.
C15_UnregisteredGetsDummy ==
    /\ \A i \in 1 .. Len(log) :
          log[i].irq \notin nvBound => log[i].isr = __irq_dummyISR
    /\ (pc = "done" /\ ~changed /\ __irq_vector_mode = 0) =>
          \A l \in startStatus \ nvBound :
              Cardinality({i \in 1 .. Len(log) :
                              log[i] = [irq |-> l, isr |-> __irq_dummyISR]}) = 1

\* Lines 2 and 5 were pending during a whole pass; only line 2 has an ISR.
C15_Witness ==
    /\ pc = "done"
    /\ ~changed
    /\ nvBound = {2}
    /\ startStatus = {2, 5}
    /\ log = << [irq |-> 2, isr |-> isrA], [irq |-> 5, isr |-> __irq_dummyISR] >>

\* The operations that take a line number, and what the claim calls their
\* default return value.
LineOps ==
    {"pic_enableInterrupt", "pic_disableInterrupt", "pic_isInterruptEnabled",
     "pic_getInterruptType", "pic_setInterruptType", "pic_registerNonVectoredIrq",
     "pic_registerVectorIrq", "pic_unregisterVectorIrq", "pic_enableVectorIrq",
     "pic_disableVectorIrq"}

DefaultRet(fn) ==
    IF fn \in {"pic_isInterruptEnabled", "pic_getInterruptType"} THEN 0
    ELSE IF fn \in {"pic_registerVectorIrq", "pic_enableVectorIrq"} THEN -1
    ELSE NoRet

InvalidCall(c) ==
    /\ c.fn \in LineOps
    /\ \/ c.irq >= NR_INTERRUPTS
       \/ c.fn = "pic_registerVectorIrq" /\ c.addr = NULL

\* C16: a call of pic_enableInterrupt, pic_disableInterrupt,
\* pic_setInterruptType, pic_registerNonVectoredIrq, pic_registerVectorIrq,
\* pic_unregisterVectorIrq, pic_enableVectorIrq or pic_disableVectorIrq with
\* a line >= 32 changes no controller register, no entry of the ISR table
\* and no entry of the shadow table; with such a line
\* pic_isInterruptEnabled and pic_getInterruptType return 0 and
\* pic_registerVectorIrq and pic_enableVectorIrq return -1; and
\* pic_registerVectorIrq with a NULL routine changes nothing and returns -1.
C16_InvalidArgsNoOp ==
    [][ InvalidCall(call') =>
            /\ UNCHANGED <<hwVars, swVars>>
            /\ ret' = DefaultRet(call'.fn) ]_vars

\* pic_enableVectorIrq(255) was refused while line 4 is bound and enabled.
C16_Witness ==
    /\ call = Call("pic_enableVectorIrq", UINT8_MAX, NoArg)
    /\ ret = -1
    /\ __irqVect[0] = 4
    /\ VICINTENABLE = {4}
    /\ __isrNV[4] = isrA

\* The empty entries of the shadow table.
EmptySlots == {s \in Slots : __irqVect[s] < 0}

\* C17: a valid pic_registerVectorIrq(line, isr) for a line that no entry of
\* the shadow table holds, made while some entry is empty, returns the
\* lowest index among the empty entries and enters the line there; so when
\* pic_unregisterVectorIrq has freed slot s and s is the lowest empty slot,
\* the registration of another line returns s.
C17_LowestEmptySlot ==
    [][ (/\ ValidBind(call')
         /\ \A s \in Slots : __irqVect[s] # call'.irq
         /\ EmptySlots # {}) =>
            /\ ret' \in EmptySlots
            /\ \A s \in EmptySlots : ret' <= s
            /\ __irqVect' = [__irqVect EXCEPT ![ret'] = call'.irq] ]_vars

\* Line 9 got slot 0 although slot 1 is taken: slot 0 had been freed.
C17_Witness ==
    /\ call = Call("pic_registerVectorIrq", 9, isrA)
    /\ prevSlot = -1
    /\ ret = 0
    /\ __irqVect[0] = 9
    /\ __irqVect[1] = 4

\* C18: a vectored dispatch reads VICVECTADDR once, then invokes once the
\* routine at the address it has read, then, after the routine returned,
\* writes VICVECTADDR once; nothing else reads or writes the register, so
\* over successive traps its reads and writes alternate, and a
\* non-vectored dispatch makes neither.
C18_ReadCallWrite ==
    /\ [](/\ pc \in {"idle", "scan", "isr", "vect"} => vaLog = << >>
          /\ pc = "vect" => log = << >>
          /\ pc = "visr" =>
                /\ vaLog = <<"read">>
                /\ Len(log) = 1
                /\ running = log[1].isr
                /\ running = VICVECTADDR
          /\ pc = "vwrite" => (vaLog = <<"read">> /\ Len(log) = 1 /\ running = NULL)
          /\ pc = "done" =>
                IF __irq_vector_mode = 0
                THEN vaLog = << >>
                ELSE vaLog = <<"read", "write">> /\ Len(log) = 1 /\ running = NULL)
    /\ [][ (VICVECTADDR' # VICVECTADDR \/ vaLog' # vaLog) =>
              \/ pc = "vect" /\ pc' = "visr" /\ vaLog' = Append(vaLog, "read")
              \/ pc = "vwrite" /\ pc' = "done" /\ vaLog' = Append(vaLog, "write")
              \/ pc = "done" /\ pc' = "idle" /\ vaLog' = << >>
                   /\ VICVECTADDR' = VICVECTADDR ]_vars

\* A vectored dispatch of line 4, bound to isrA, has made its final store.
C18_Witness ==
    /\ pc = "done"
    /\ __irq_vector_mode = 1
    /\ vaLog = <<"read", "write">>
    /\ log = << [irq |-> 4, isr |-> isrA] >>
    /\ VICVECTADDR = AllOnes
    /\ __irqVect[0] = 4

\* C20: the CPU masks IRQs when it takes one and no ISR unmasks them, so at
\* most one execution of _pic_IrqHandler is in flight at any time: while
\* one is, IRQs are masked, and no trap entry begins before it has returned.
C20_DispatchSerialized ==
    /\ inFlight <= 1
    /\ (inFlight = 1) <=> (pc # "idle")
    /\ inFlight = 1 => (IrqMasked /\ ~(IBit \subseteq spsr_irq))

\* An ISR is running and a line that was quiet at trap entry is now
\* asserted: the controller requests an IRQ that the CPU does not take.
C20_Witness ==
    /\ pc = "visr"
    /\ inFlight = 1
    /\ startStatus = {4}
    /\ VICIRQSTATUS = {4, 9}
    /\ IrqMasked

BootEndsInStartState ==
    InMain => (cpsr = StartCpsr /\ r0 = ResetCpsr /\ r1 = StartCpsr
               /\ copyCalls = 1 /\ cpc = "done")

\* C22: a pic_registerVectorIrq(line, isr) that returns a slot s >= 0 sets
\* __irqVect[s] to line, the address register of slot s to isr and its
\* control register to line | 0x20 (the line in bits 0..4, bit 5 set); no
\* other slot's shadow entry, address register or control register changes,
\* and no entry of the non-vectored ISR table.
C22_BindWritesOneSlot ==
    [][ (call'.fn = "pic_registerVectorIrq" /\ ret' >= 0) =>
            /\ ret' \in Slots
            /\ __irqVect'[ret'] = call'.irq
            /\ VICVECTADDRn'[ret'] = call'.addr
            /\ VICVECTCNTLn'[ret'] % 32 = call'.irq
            /\ VICVECTCNTLn'[ret'] \div 32 = 1
            /\ \A s \in Slots \ {ret'} :
                  /\ __irqVect'[s] = __irqVect[s]
                  /\ VICVECTADDRn'[s] = VICVECTADDRn[s]
                  /\ VICVECTCNTLn'[s] = VICVECTCNTLn[s]
            /\ __isrNV' = __isrNV ]_vars

\* Line 9 was bound to slot 1 with isrB while line 4 keeps slot 0 and isrA.
C22_Witness ==
    /\ call = Call("pic_registerVectorIrq", 9, isrB)
    /\ ret = 1
    /\ __irqVect = (0 :> 4 @@ 1 :> 9 @@ 2 :> -1)
    /\ VICVECTADDRn[0] = isrA /\ VICVECTADDRn[1] = isrB
    /\ VICVECTCNTLn[0] = 36 /\ VICVECTCNTLn[1] = 41


\* C23: after pic_init(), whatever pic_registerVectorIrq,
\* pic_unregisterVectorIrq and pic_unregisterAllVectorIrqs calls came
\* before, a pic_registerVectorIrq with valid arguments returns -1 exactly
\* when its line is bound to no slot and every shadow entry is bound (then
\* to NR_VECTORS different lines); a call that returns -1 leaves the shadow
\* table and every controller register as they were.
C23_FailsOnlyWhenFull ==
    [][ ValidBind(call') =>
            /\ (ret' = -1) <=>
                  /\ \A s \in Slots : __irqVect[s] # call'.irq
                  /\ \A s \in Slots : __irqVect[s] >= 0
            /\ (ret' = -1) =>
                  /\ Cardinality({__irqVect[s] : s \in Slots}) = NR_VECTORS
                  /\ UNCHANGED <<hwVars, swVars>> ]_vars

\* Line 31 found the table full of lines 0, 4 and 9.
C23_Witness ==
    /\ call = Call("pic_registerVectorIrq", 31, isrA)
    /\ ret = -1
    /\ {__irqVect[s] : s \in Slots} = {0, 4, 9}
    /\ lastSlot[4] >= 0


\* C24: pic_unregisterVectorIrq(line) resets every slot whose shadow entry
\* equals line, duplicates included, to control register 0, address
\* register __irq_dummyISR and shadow entry empty; every other slot, every
\* other register and the software tables stay as they were, and with no
\* slot bound to line nothing changes at all.
C24_UnbindResetsAllMatches ==
    [][ call'.fn = "pic_unregisterVectorIrq" =>
            /\ \A s \in Slots :
                  IF call'.irq = __irqVect[s]
                  THEN /\ VICVECTCNTLn'[s] = 0
                       /\ VICVECTADDRn'[s] = __irq_dummyISR
                       /\ __irqVect'[s] = -1
                  ELSE /\ VICVECTCNTLn'[s] = VICVECTCNTLn[s]
                       /\ VICVECTADDRn'[s] = VICVECTADDRn[s]
                       /\ __irqVect'[s] = __irqVect[s]
            /\ UNCHANGED <<VICIRQSTATUS, clrRegs, ctlRegs, VICVECTADDR, VICDEFVECTADDR,
                           __isrNV, __irq_vector_mode>>
            /\ (\A s \in Slots : call'.irq # __irqVect[s]) =>
                  UNCHANGED <<hwVars, swVars>> ]_vars

\* Line 0 was unbound while several slots read as bound to it: the last
\* slot, which no registration had written, was reset with the others.
C24_Witness ==
    /\ call = Call("pic_unregisterVectorIrq", 0, NoArg)
    /\ lastSlot[4] = -1
    /\ \A s \in Slots :
          /\ __irqVect[s] = -1
          /\ VICVECTADDRn[s] = __irq_dummyISR
          /\ VICVECTCNTLn[s] = 0


\* C25: pic_enableVectorIrq(line) and pic_disableVectorIrq(line) change
\* nothing but bit 5 of the control register of the slot(s) whose shadow
\* entry is line: the line bits of that register, every address register,
\* the shadow table, the other slots and all other state stay as they were.
\* pic_enableVectorIrq returns the slot's index when line is bound, and -1,
\* changing nothing, when it is not.  After pic_disableVectorIrq no slot
\* bound to line is enabled; after pic_enableVectorIrq the slot bound to
\* line is enabled.
C25_EnableBitOnly ==
    [][ call'.fn \in {"pic_enableVectorIrq", "pic_disableVectorIrq"} =>
          LET bound == {s \in Slots : __irqVect[s] = call'.irq}
              bit5(c) == (c \div BM_VECT_ENABLE_BIT) % 2
          IN  /\ \A s \in Slots \ bound : VICVECTCNTLn'[s] = VICVECTCNTLn[s]
              /\ \A s \in bound :
                    /\ VICVECTCNTLn'[s] % BM_VECT_ENABLE_BIT =
                          VICVECTCNTLn[s] % BM_VECT_ENABLE_BIT
                    /\ VICVECTCNTLn'[s] \div (2 * BM_VECT_ENABLE_BIT) =
                          VICVECTCNTLn[s] \div (2 * BM_VECT_ENABLE_BIT)
                    /\ bit5(VICVECTCNTLn'[s]) =
                          IF call'.fn = "pic_enableVectorIrq" THEN 1 ELSE 0
              /\ UNCHANGED <<VICIRQSTATUS, clrRegs, ctlRegs, VICVECTADDR, VICDEFVECTADDR,
                             VICVECTADDRn, swVars>>
              /\ call'.fn = "pic_enableVectorIrq" =>
                    IF bound = {} THEN /\ ret' = -1
                                       /\ UNCHANGED <<hwVars, swVars>>
                                  ELSE ret' \in bound ]_vars

\* Line 9, bound to slot 1, was enabled; line 4 in slot 0 stays disabled.
C25_Witness ==
    /\ call = Call("pic_enableVectorIrq", 9, NoArg)
    /\ ret = 1
    /\ __irqVect[0] = 4 /\ __irqVect[1] = 9
    /\ VICVECTCNTLn[0] = 4
    /\ VICVECTCNTLn[1] = 41
    /\ VICVECTADDRn[1] = isrB


\* C26 as stated: when pic_registerVectorIrq(line, ..) returned s and is
\* followed at once by pic_unregisterVectorIrq(line) and
\* pic_registerVectorIrq(line, isr2), the second registration returns s
\* again, in every reachable state of the allocator.
C26_RebindSameSlotAfterUnbind ==
    (ValidBind(call) /\ relSlot >= 0) => ret = relSlot

\* C26, amended: the registration that follows the unregistration takes the
\* lowest empty slot, which is never above s and is s exactly when every
\* slot below s is occupied; the slots below the returned one are held by
\* other lines, and the line occupies one slot after the registration and
\* none after the unregistration.
C26_RebindLowestSlot ==
    /\ (ValidBind(call) /\ relSlot >= 0) =>
          /\ ret \in 0 .. relSlot
          /\ __irqVect[ret] = call.irq
          /\ \A t \in 0 .. (ret - 1) : __irqVect[t] >= 0
          /\ (ret = relSlot) <=>
                \A t \in 0 .. (relSlot - 1) :
                   __irqVect[t] >= 0 /\ __irqVect[t] # call.irq
          /\ Cardinality({s \in Slots : __irqVect[s] = call.irq}) = 1
    /\ (call.fn = "pic_unregisterVectorIrq" /\ relSlot >= 0) =>
          /\ {s \in Slots : __irqVect[s] = call.irq} = {}
          /\ __irqVect[relSlot] < 0

\* Line 9 held slot 1 and got slot 0, which line 4 had left.
C26_Witness ==
    /\ call = Call("pic_registerVectorIrq", 9, isrB)
    /\ relSlot = 1
    /\ ret = 0
    /\ __irqVect = (0 :> 9 @@ 1 :> -1 @@ 2 :> -1)


\* C27: after pic_init(), from whatever state it was called in: every line
\* is IRQ-typed and disabled (pic_isInterruptEnabled = 0,
\* pic_getInterruptType = 1), no software interrupt is set, the default
\* vector address and all 32 non-vectored table entries are
\* __irq_dummyISR, every shadow entry is empty, every vector slot's address
\* register holds __irq_dummyISR, and the handling mode is non-vectored.
C27_InitResetsAll ==
    call.fn = "pic_init" =>
        /\ \A irq \in 0 .. (NR_INTERRUPTS - 1) :
              IsInterruptEnabled(irq) = 0 /\ GetInterruptType(irq) = 1
        /\ VICSOFTINT = {}
        /\ VICDEFVECTADDR = __irq_dummyISR
        /\ \A irq \in 0 .. (NR_INTERRUPTS - 1) : __isrNV[irq] = __irq_dummyISR
        /\ \A s \in Slots : __irqVect[s] = -1
        /\ \A s \in Slots : VICVECTADDRn[s] = __irq_dummyISR
        /\ __irq_vector_mode = 0


\* C28: after pic_setInterruptType(line, asIRQ) with line below 32,
\* pic_getInterruptType(line) is nonzero exactly when asIRQ is nonzero;
\* the type of every other line and the enable state of every line are as
\* they were before the call; and the same call made again changes nothing.
C28_SetTypeOneLine ==
    /\ [](  (call.fn = "pic_setInterruptType" /\ call.irq < NR_INTERRUPTS) =>
              /\ (GetInterruptType(call.irq) # 0) <=> (call.addr # 0)
              /\ \A l \in 0 .. (NR_INTERRUPTS - 1) :
                    /\ l # call.irq =>
                          ((l \in VICINTSELECT) <=> (l \in preCtl.select))
                    /\ (l \in VICINTENABLE) <=> (l \in preCtl.enable)  )
    /\ [][ (call.fn = "pic_setInterruptType" /\ call' = call) =>
              UNCHANGED <<hwVars, swVars>> ]_vars

\* Line 4 was made FIQ while line 0 is FIQ and lines 4 and 31 are enabled.
C28_Witness ==
    /\ call = Call("pic_setInterruptType", 4, 0)
    /\ preCtl.select = {0}
    /\ VICINTSELECT = {0, 4}
    /\ VICINTENABLE = {4, 31}


\* C29: the write-only registers VICINTENCLEAR and VICSOFTINTCLEAR are
\* never read: every access is a store of a whole word that does not depend
\* on what the register held, with 1 in exactly the bits to clear -- the
\* line's bit for pic_disableInterrupt(line), bit SW_PIC_IRQ for
\* pic_clearSoftwareInterrupt, all bits for pic_disableAllInterrupts and
\* pic_init -- and the store clears those bits of the register it controls
\* and no other; no other operation stores to either register.
C29_ClearRegsStoreOnly ==
    /\ [](  /\ (call.fn = "pic_disableInterrupt" /\ call.irq < NR_INTERRUPTS) =>
                  /\ VICINTENCLEAR = Bit(call.irq)
                  /\ VICINTENABLE = preCtl.enable \ Bit(call.irq)
            /\ call.fn = "pic_disableAllInterrupts" =>
                  VICINTENCLEAR = AllBits /\ VICINTENABLE = {}
            /\ call.fn = "pic_clearSoftwareInterrupt" =>
                  /\ VICSOFTINTCLEAR = Bit(SW_PIC_IRQ)
                  /\ VICSOFTINT = preCtl.softint \ Bit(SW_PIC_IRQ)
            /\ call.fn = "pic_init" =>
                  /\ VICINTENCLEAR = AllBits /\ VICINTENABLE = {}
                  /\ VICSOFTINTCLEAR = AllBits /\ VICSOFTINT = {}  )
    /\ [][ /\ VICINTENCLEAR' # VICINTENCLEAR =>
                 call'.fn \in {"pic_disableInterrupt", "pic_disableAllInterrupts",
                               "pic_init"}
           /\ VICSOFTINTCLEAR' # VICSOFTINTCLEAR =>
                 call'.fn \in {"pic_clearSoftwareInterrupt", "pic_init"} ]_vars

\* Line 4 was disabled, after a pic_clearSoftwareInterrupt, while line 0
\* stays enabled.
C29_Witness ==
    /\ call = Call("pic_disableInterrupt", 4, NoArg)
    /\ VICINTENCLEAR = {4}
    /\ VICSOFTINTCLEAR = Bit(SW_PIC_IRQ)
    /\ preCtl.enable = {0, 4}
    /\ VICINTENABLE = {0}


\* C30: every trap runs exactly one dispatch strategy, chosen by the value
\* __irq_vector_mode has when _pic_IrqHandler starts: the scan of the
\* non-vectored table when it is 0, the read-call-write of VICVECTADDR
\* otherwise.  The pass keeps its strategy to its end whatever is stored
\* into the flag meanwhile, an ISR's store included; the flag is 0 at reset
\* and after every pic_init().
C30_ModeReadOncePerTrap ==
    /\ [](  /\ call.fn \in {"reset", "pic_init"} => __irq_vector_mode = 0
            /\ pc = "done" =>
                  \/ vaLog = << >> /\ scanIrq = NR_INTERRUPTS
                  \/ vaLog = <<"read", "write">> /\ scanIrq = 0 /\ Len(log) = 1  )
    /\ [][ /\ inFlight' = inFlight + 1 =>
                 pc' = IF __irq_vector_mode = 0 THEN "scan" ELSE "vect"
           /\ pc \in {"scan", "isr"} =>
                 /\ pc' \in {"scan", "isr", "done"}
                 /\ vaLog' = << >>
                 /\ VICVECTADDR' = VICVECTADDR
           /\ pc \in {"vect", "visr", "vwrite"} =>
                 /\ pc' \in {"vect", "visr", "vwrite", "done"}
                 /\ scanIrq' = 0 ]_vars

\* The ISR of a vectored pass switched the mode to non-vectored; the pass
\* ended with the store to VICVECTADDR all the same.
C30_Witness ==
    /\ pc = "done"
    /\ call = Call("_pic_set_irq_vector_mode", 0, NoArg)
    /\ __irq_vector_mode = 0
    /\ vaLog = <<"read", "write">>
    /\ log = <<[irq |-> IRQ_TIMER0, isr |-> isrB]>>


(***************************************************************************)
(* The test tasks that start() runs after the startup code:               *)
(* timerVectIrqTest and rtcTest, statement by statement, with the timer   *)
(* and the RTC raising their lines once started and with timer0ISR and    *)
(* rtcISR called by _pic_IrqHandler.  timersEnabledTest and               *)
(* timerPollingTest, which start() runs first, use neither the interrupt  *)
(* controller nor the CPSR.  isrA stands for &timer0ISR, isrB for         *)
(* &rtcISR.  A statement begins (TaskCall) and then takes effect; a trap   *)
(* may be taken in between when the CPU and the controller allow it.      *)
(***************************************************************************)
IRQ_RTC == 10

\* The number of ticks timerVectIrqTest waits for (10 in the source), and
\* the count at which the model stops raising lines.
TickGoal == 2
TickMax == TickGoal + 1

Tests ==
    << Call("pic_init", NoIrq, NoArg),
       Call("_pic_set_irq_vector_mode", 1, NoArg),
       Call("pic_registerVectorIrq", IRQ_TIMER0, isrA),
       Call("irq_enableIrqMode", NoIrq, NoArg),
       Call("pic_enableInterrupt", IRQ_TIMER0, NoArg),
       Call("__tick_cntr = 0", NoIrq, NoArg),
       Call("timer_start", IRQ_TIMER0, NoArg),
       Call("while", TickGoal, NoArg),
       Call("__tick_cntr = 0", NoIrq, NoArg),
       Call("timer_disableInterrupt", IRQ_TIMER0, NoArg),
       Call("pic_disableInterrupt", IRQ_TIMER0, NoArg),
       Call("irq_disableIrqMode", NoIrq, NoArg),
       Call("_pic_set_irq_vector_mode", 0, NoArg),
       Call("pic_init", NoIrq, NoArg),
       Call("pic_registerNonVectoredIrq", IRQ_RTC, isrB),
       Call("irq_enableIrqMode", NoIrq, NoArg),
       Call("pic_enableInterrupt", IRQ_RTC, NoArg),
       Call("rtc_start", IRQ_RTC, NoArg),
       Call("__tick_cntr = 0", NoIrq, NoArg),
       Call("while", 1, NoArg),
       Call("rtc_disableInterrupt", IRQ_RTC, NoArg),
       Call("pic_disableInterrupt", IRQ_RTC, NoArg),
       Call("irq_disableIrqMode", NoIrq, NoArg) >>

\* The statement at tpc begins.
TaskCall ==
    /\ pc = "idle"
    /\ ~inCall
    /\ tpc <= Len(Tests)
    /\ inCall' = TRUE
    /\ UNCHANGED <<picVars, copyVars, bootVars, tpc, __tick_cntr, srcOn, fgStep>>

\* The statement at tpc, one of fns, takes effect and returns.
Task(fns, op) ==
    /\ pc = "idle"
    /\ inCall
    /\ tpc <= Len(Tests)
    /\ Tests[tpc].fn \in fns
    /\ op
    /\ inCall' = FALSE
    /\ tpc' = tpc + 1

TaskApi(op) ==
    /\ op
    /\ AllocHistory
    /\ NvHistory
    /\ UNCHANGED <<fill, preCtl, preNV, trapVars, copyVars, bootVars,
                   __tick_cntr, srcOn, fgStep>>

TaskCpu(op) ==
    /\ op
    /\ UNCHANGED <<hwVars, swVars, call, ret, histVars, preCtl, preNV, pc,
                   scanIrq, running, log, startStatus, changed, vaLog, nvBound,
                   copyVars, bootVars, __tick_cntr, srcOn, fgStep>>

\* timer_start, rtc_start, timer_disableInterrupt, rtc_disableInterrupt:
\* the peripherals that may raise their line from now on; a peripheral
\* whose interrupt is disabled drops its line.
Periph(on) ==
    /\ srcOn' = on
    /\ VICIRQSTATUS' = VICIRQSTATUS \cap on
    /\ UNCHANGED <<ctlRegs, clrRegs, VICVECTADDR, VICDEFVECTADDR, slotRegs,
                   swVars, call, ret, histVars, preCtl, preNV, trapVars, nvBound,
                   copyVars, bootVars, __tick_cntr, fgStep>>

\* __tick_cntr = 0;
TickStore(v) ==
    /\ __tick_cntr' = v
    /\ UNCHANGED <<picVars, copyVars, bootVars, srcOn, fgStep>>

\* The exit of while ( __tick_cntr<10 ) and of while ( 0 == __tick_cntr ).
WaitExit(goal) ==
    /\ __tick_cntr >= goal
    /\ UNCHANGED <<picVars, copyVars, bootVars, __tick_cntr, srcOn, fgStep>>

\* A started peripheral raises its line, which the controller passes on
\* when the line is enabled.
LineRise(line) ==
    /\ line \in srcOn \cap VICINTENABLE
    /\ line \notin VICIRQSTATUS
    /\ __tick_cntr < TickMax
    /\ LineChange(VICIRQSTATUS \cup {line})

\* The body of timer0ISR and of rtcISR: the counter is incremented and the
\* interrupt is cleared at the peripheral; then the return to
\* _pic_IrqHandler.  The timer is periodic and will raise its line again;
\* the RTC was given one match value by rtcTest, and once that alarm has
\* been cleared the RTC does not raise its line again (again = FALSE).
IsrBody(isr, line, again) ==
    /\ pc \in {"isr", "visr"}
    /\ running = isr
    /\ __tick_cntr' = __tick_cntr + 1
    /\ VICIRQSTATUS' = VICIRQSTATUS \ {line}
    /\ changed' = TRUE
    /\ pc' = IF pc = "isr" THEN "scan" ELSE "vwrite"
    /\ scanIrq' = IF pc = "isr" THEN scanIrq + 1 ELSE scanIrq
    /\ running' = NULL
    /\ srcOn' = IF again THEN srcOn ELSE srcOn \ {line}
    /\ UNCHANGED <<ctlRegs, clrRegs, VICVECTADDR, VICDEFVECTADDR, slotRegs,
                   swVars, call, ret, histVars, preCtl, preNV, log, startStatus,
                   vaLog, cpuVars, nvBound, copyVars, bootVars, tpc, inCall,
                   fgStep>>

timer0ISR == IsrBody(isrA, IRQ_TIMER0, TRUE)
rtcISR == IsrBody(isrB, IRQ_RTC, FALSE)

NextTasks ==
    \/ TaskCall
    \/ Task({"pic_init"}, TaskApi(pic_init))
    \/ Task({"_pic_set_irq_vector_mode"},
            TaskApi(_pic_set_irq_vector_mode(Tests[tpc].irq)))
    \/ Task({"pic_registerVectorIrq"},
            TaskApi(pic_registerVectorIrq(Tests[tpc].irq, Tests[tpc].addr)))
    \/ Task({"pic_registerNonVectoredIrq"},
            TaskApi(pic_registerNonVectoredIrq(Tests[tpc].irq, Tests[tpc].addr)))
    \/ Task({"pic_enableInterrupt"}, TaskApi(pic_enableInterrupt(Tests[tpc].irq)))
    \/ Task({"pic_disableInterrupt"}, TaskApi(pic_disableInterrupt(Tests[tpc].irq)))
    \/ Task({"irq_enableIrqMode"}, TaskCpu(irq_enableIrqMode))
    \/ Task({"irq_disableIrqMode"}, TaskCpu(irq_disableIrqMode))
    \/ Task({"timer_start", "rtc_start"}, Periph(srcOn \cup {Tests[tpc].irq}))
    \/ Task({"timer_disableInterrupt", "rtc_disableInterrupt"},
            Periph(srcOn \ {Tests[tpc].irq}))
    \/ Task({"__tick_cntr = 0"}, TickStore(0))
    \/ Task({"while"}, WaitExit(Tests[tpc].irq))
    \/ \E line \in {IRQ_TIMER0, IRQ_RTC} : LineRise(line)
    \/ Trap(TrapEntry)
    \/ Trap(ScanStep)
    \/ Trap(VectRead)
    \/ Trap(VectWrite)
    \/ Trap(TrapExit)
    \/ timer0ISR
    \/ rtcISR

SpecTasks == InitTrap /\ [][NextTasks]_vars

\* The statements that change the state the foreground shares with
\* _pic_IrqHandler.
Mutators ==
    {"pic_init", "pic_registerNonVectoredIrq", "pic_registerVectorIrq",
     "_pic_set_irq_vector_mode"}

MutatorInProgress == inCall /\ tpc <= Len(Tests) /\ Tests[tpc].fn \in Mutators

\* The CPSR of the foreground: the SPSR while _pic_IrqHandler runs.
FgCpsr == IF inFlight > 0 THEN spsr_irq ELSE cpsr

\* C21: in the boot and test sequences pic_init, pic_registerNonVectoredIrq,
\* pic_registerVectorIrq and every _pic_set_irq_vector_mode are executed
\* with the I bit of the foreground's CPSR set, and no trap is dispatched
\* before the first pic_init() or while one of them is in progress.
C21_MutatorsRunMasked ==
    /\ MutatorInProgress => ((FgCpsr \cap IBit) # {} /\ inFlight = 0)
    /\ inFlight > 0 => Booted


\* The number of steps a non-vectored pass can still take at most.
PassMeasure ==
    IF pc = "scan" THEN 2 * (NR_INTERRUPTS - scanIrq) + 1
    ELSE IF pc = "isr" THEN 2 * (NR_INTERRUPTS - scanIrq)
    ELSE 0

\* C31: within one non-vectored pass the callback of a line is invoked at
\* most once, in ascending line order, so at most NR_INTERRUPTS callbacks
\* per pass; every step of the pass (a test of a bit, a callback's return)
\* takes it closer to its end, whatever the lines do meanwhile, so the pass
\* ends when the callbacks return.  A line that is asserted again behind
\* the scan position is served only by a later trap.
C31_OncePerLinePerPass ==
    /\ [](  pc \in {"scan", "isr", "done"} =>
              /\ \A i, j \in 1 .. Len(log) : i < j => log[i].irq < log[j].irq
              /\ Len(log) <= NR_INTERRUPTS
              /\ \A i \in 1 .. Len(log) :
                    log[i].irq < scanIrq \/ (pc = "isr" /\ log[i].irq = scanIrq)
              /\ PassMeasure >= 0  )
    /\ [][ (pc \in {"scan", "isr"} /\ (pc' # pc \/ scanIrq' # scanIrq)) =>
              /\ PassMeasure' < PassMeasure
              /\ pc' \in {"scan", "isr", "done"} ]_vars

\* Line 2 was served once, dropped and asserted again during the pass; the
\* pass has ended with the line still pending.
C31_Witness ==
    /\ pc = "done"
    /\ changed
    /\ startStatus = {2}
    /\ VICIRQSTATUS = {2}
    /\ log = << [irq |-> 2, isr |-> isrA] >>


\* ---------------------------------------------------------------------------
\* copy_vectors as a function of its three addresses and the memory: the
\* writes it performs, in order, and the memory it leaves.
\* ---------------------------------------------------------------------------
RECURSIVE ForwardLoop(_, _, _, _, _)
ForwardLoop(src, dst, end, m, w) ==
    IF src < end
    THEN ForwardLoop(PtrAdd(src, 1), PtrAdd(dst, 1), end,
                     [m EXCEPT ![dst] = m[src]], Append(w, dst))
    ELSE [mem |-> m, writes |-> w]

RECURSIVE BackwardLoop(_, _, _, _, _)
BackwardLoop(src, dst, start, m, w) ==
    IF dst >= start
    THEN BackwardLoop(PtrAdd(src, -1), PtrAdd(dst, -1), start,
                      [m EXCEPT ![dst] = m[src]], Append(w, dst))
    ELSE [mem |-> m, writes |-> w]

copy_vectors(vstart, vend, dst, m) ==
    LET begin == IF vstart <= vend THEN vstart ELSE vend
        end   == IF vend >= vstart THEN vend ELSE vstart
        len   == ToUnsigned(PtrDiff(end, begin))
    IN  IF dst = begin
        THEN [mem |-> m, writes |-> << >>]
        ELSE IF len > ToUnsigned(PtrDiff(MAX_ADDRESS, dst))
        THEN [mem |-> m, writes |-> << >>]
        ELSE IF dst < begin \/ dst >= end
        THEN ForwardLoop(begin, dst, end, m, << >>)
        ELSE BackwardLoop(PtrAdd(end, -1), PtrAdd(PtrAdd(dst, len), -1),
                          dst, m, << >>)

\* C32: the two bounds of the source block may be passed in either order:
\* the call that has ended performed the writes, and left the memory, that
\* the call with the two bounds exchanged performs and leaves; the block
\* copied is the one between the lower and the higher bound.
C32_ReversedBoundsSameCopy ==
    cpc = "done" =>
        /\ [mem |-> mem, writes |-> writes]
              = copy_vectors(vectors_end, vectors_start, dst_start, InitialMem)
        /\ copy_vectors(vectors_start, vectors_end, dst_start, InitialMem)
              = copy_vectors(vectors_end, vectors_start, dst_start, InitialMem)
        /\ \A i \in 1 .. Len(writes) :
              \E k \in 0 .. (Len(writes) - 1) :
                 /\ writes[i] = dst_start + WordBytes * k
                 /\ vectors_start + WordBytes * k < vectors_end
                       \/ vectors_end + WordBytes * k < vectors_start

\* The bounds were passed higher first, and the three words between them
\* were copied to a block that overlaps them.
C32_Witness ==
    /\ cpc = "done"
    /\ vectors_start = 16
    /\ vectors_end = 4
    /\ dst_start = 8
    /\ writes = <<16, 12, 8>>
    /\ mem[8] = 4 /\ mem[12] = 8 /\ mem[16] = 12


\* C33: a destination below the source block, or at or above its end, is
\* written in strictly ascending address order; any other destination but
\* the start of the block, for which the call returns at once, lies strictly
\* inside the block and is written in strictly descending order.
\* In both orders no word is read after this call has written it.
C33_DirectionRule ==
    /\ ~staleRead
    /\ (dst_start < src_begin \/ dst_start >= src_end) =>
          \A i, j \in 1 .. Len(writes) : i < j => writes[i] < writes[j]
    /\ (dst_start # src_begin /\ ~(dst_start < src_begin \/ dst_start >= src_end)) =>
          /\ src_begin < dst_start /\ dst_start < src_end
          /\ \A i, j \in 1 .. Len(writes) : i < j => writes[i] > writes[j]

\* Three words were copied one word down: the first two words of the source
\* were overwritten, each after it had been read.
C33_Witness ==
    /\ cpc = "done"
    /\ vectors_start = 8
    /\ vectors_end = 20
    /\ dst_start = 4
    /\ writes = <<4, 8, 12>>
    /\ mem[4] = 8 /\ mem[8] = 12 /\ mem[12] = 16


\* The words of the block [dst_start, dst_start + (src_end - src_begin)).
DestWords == {a \in Words : dst_start <= a /\ a < dst_start + LenBytes}

\* C34: a call that passed both tests (destination equal to the start of the
\* block, block longer than the room above the destination) never writes a
\* word outside the destination block nor a word twice, and when it has
\* ended it has written every word of the destination block.  With an empty
\* source block and a different destination nothing is written.
C34_WritesDestOnce ==
    /\ \A i \in 1 .. Len(writes) : writes[i] \in DestWords
    /\ \A i, j \in 1 .. Len(writes) : writes[i] = writes[j] => i = j
    /\ (cpc = "done" /\ ~SameStart /\ ~OverflowGuard) =>
          /\ {writes[i] : i \in 1 .. Len(writes)} = DestWords
          /\ Len(writes) = LenBytes \div WordBytes
          /\ Cardinality(DestWords) = LenBytes \div WordBytes
    /\ (vectors_start = vectors_end /\ dst_start # vectors_start) =>
          /\ ~SameStart /\ ~OverflowGuard
          /\ writes = << >>

\* A block of two words was copied to a destination inside it, higher bound
\* passed first: both words of the destination were written, once each.
C34_Witness ==
    /\ cpc = "done"
    /\ vectors_start = 20
    /\ vectors_end = 12
    /\ dst_start = 16
    /\ writes = <<20, 16>>


\* copy_vectors runs with nothing to wait for: a call that has not returned
\* takes its next step.  Every step changes the position in the function or
\* appends to the write log.
SpecCopyLive == SpecCopy /\ WF_<<cpc, writes>>(NextCopy)

\* C35: every call returns, whatever the order of the bounds, the length of
\* the block and the destination.  The descending loop is entered with a
\* destination above address 0 only, and its destination pointer stops one
\* word below the destination without wrapping; a call that copies has
\* executed a loop body once per word of the block, in either loop.
C35_CopyTerminates ==
    /\ <>(cpc = "done")
    /\ [](cpc = "bwd" =>
            /\ dst_start > 0
            /\ vectors_dst >= dst_start - WordBytes
            /\ vectors_dst < dst_start + LenBytes)
    /\ [](cpc = "fwd" =>
            /\ vectors_src >= src_begin
            /\ vectors_src <= src_end)
    /\ []((cpc = "done" /\ ~SameStart /\ ~OverflowGuard) =>
            Len(writes) = LenBytes \div WordBytes)

\* The descending loop has ended with its destination pointer at address 0,
\* one word below the destination.
C35_Witness ==
    /\ cpc = "done"
    /\ vectors_start = 0
    /\ vectors_end = 12
    /\ dst_start = 4
    /\ vectors_dst = 0
    /\ writes = <<12, 8, 4>>


(***************************************************************************)
(* pic_enableInterrupt load by load and store by store.  The statement     *)
(* pPicReg->VICINTENABLE |= ( UL1 << irq ) on a volatile register is a     *)
(* load of the register, an OR and a store of the result; IRQs are not     *)
(* masked around it, so _pic_IrqHandler may run between the load and the   *)
(* store, and the ISR it invokes may call the driver, here                 *)
(* pic_disableInterrupt.  The ISRs are dispatched in non-vectored mode.    *)
(***************************************************************************)
PreemptIrqs == {IRQ_TIMER0, IRQ_RTC}

\* The load of VICINTENABLE by pic_enableInterrupt(irq), irq valid.
EnableLoad(irq) ==
    /\ Booted
    /\ pc = "idle"
    /\ fgStep = NoStep
    /\ irq < NR_INTERRUPTS
    /\ fgStep' = [NoStep EXCEPT !.fn = "pic_enableInterrupt", !.irq = irq,
                                !.val = VICINTENABLE]
    /\ UNCHANGED <<picVars, copyVars, bootVars, tpc, inCall, __tick_cntr, srcOn>>

\* The store of the loaded word, with the bit of irq set, to VICINTENABLE,
\* and the return.
EnableStore ==
    /\ pc = "idle"
    /\ fgStep.fn = "pic_enableInterrupt"
    /\ call' = Call("pic_enableInterrupt", fgStep.irq, NoArg)
    /\ ret' = NoRet
    /\ VICINTENABLE' = WriteIntEnable(VICINTENABLE, fgStep.val \cup Bit(fgStep.irq))
    /\ fgStep' = NoStep
    /\ AllocHistory
    /\ NvHistory
    /\ UNCHANGED <<VICIRQSTATUS, clrRegs, VICINTSELECT, VICSOFTINT, VICVECTADDR,
                   VICDEFVECTADDR, slotRegs, swVars, fill, preCtl, preNV,
                   trapVars, copyVars, bootVars, tpc, inCall, __tick_cntr,
                   srcOn>>

NextPreempt ==
    \/ Boot
    \/ \E irq \in PreemptIrqs :
          pc = "idle" /\ fgStep = NoStep
                      /\ RegApi(pic_registerNonVectoredIrq(irq, isrA))
    \/ \E irq \in PreemptIrqs : EnableLoad(irq)
    \/ EnableStore
    \/ \E irq \in PreemptIrqs : InIsr(pic_disableInterrupt(irq))
    \/ \E status \in SUBSET PreemptIrqs : LineChange(status)
    \/ Trap(TrapEntry)
    \/ Trap(ScanStep)
    \/ Trap(IsrReturn)
    \/ Trap(TrapExit)

SpecPreempt == InitTrap /\ [][NextPreempt]_vars

\* C38: the store that ends pic_enableInterrupt(a) leaves line a enabled and
\* every other line as it was just before the store, whatever an interrupt
\* handler did between the load and the store; in particular a line b that
\* was enabled at the load and that the handler has disabled in between
\* stays disabled.
C38_EnableKeepsOtherLines ==
    [][ (fgStep.fn = "pic_enableInterrupt" /\ fgStep' = NoStep) =>
            VICINTENABLE' = VICINTENABLE \cup {fgStep.irq} ]_vars


(***************************************************************************)
(* The vector slot allocator store by store.  After the boot sequence's    *)
(* pic_init() the application calls pic_registerVectorIrq,                 *)
(* pic_unregisterVectorIrq and pic_unregisterAllVectorIrqs, whose stores   *)
(* are followed one at a time in program order (all three targets are      *)
(* volatile), and between two of them pic_enableVectorIrq,                 *)
(* pic_disableVectorIrq and pic_disableAllVectorIrqs.  A call with an      *)
(* invalid argument, or one that finds no slot, makes no store.            *)
(***************************************************************************)
StoreIrqs == {0, 4}
StoreIsrs == {isrA, isrB}

\* The part of a followed function that makes no store: the position
\* moves on and nothing else changes.
StepOnly ==
    UNCHANGED <<picVars, copyVars, bootVars, tpc, inCall, __tick_cntr, srcOn>>

\* A store of a followed function, or its return: the variables that no
\* such step changes.
StepFrame ==
    UNCHANGED <<VICIRQSTATUS, clrRegs, ctlRegs, VICVECTADDR, VICDEFVECTADDR,
                __isrNV, __irq_vector_mode, fill, preCtl, preNV, trapVars,
                nvBound, copyVars, bootVars, tpc, inCall, __tick_cntr, srcOn>>

\* A store that is not the last step of its function.
StepInside == StepFrame /\ UNCHANGED <<call, ret, histVars>>

\* pic_registerVectorIrq(irq, addr) with valid arguments has found its slot.
RegisterBegin(irq, addr) ==
    /\ Booted
    /\ pc = "idle"
    /\ fgStep = NoStep
    /\ irq < NR_INTERRUPTS /\ addr # NULL
    /\ RegSlot(irq) >= 0
    /\ fgStep' = [NoStep EXCEPT !.fn = "pic_registerVectorIrq", !.irq = irq,
                                !.addr = addr, !.slot = RegSlot(irq)]
    /\ StepOnly

\* Mutant of RegisterStore: the control register is written first.
RegisterStore_ControlFirst ==
    /\ fgStep.fn = "pic_registerVectorIrq"
    /\ LET cntr == fgStep.slot
       IN  CASE fgStep.stores = 0 ->
                  /\ VICVECTCNTLn' = [VICVECTCNTLn EXCEPT ![cntr] = RegCntl(fgStep.irq)]
                  /\ fgStep' = [fgStep EXCEPT !.stores = 1]
                  /\ UNCHANGED <<__irqVect, VICVECTADDRn>>
                  /\ StepInside
             [] fgStep.stores = 1 ->
                  /\ VICVECTADDRn' = [VICVECTADDRn EXCEPT ![cntr] = fgStep.addr]
                  /\ fgStep' = [fgStep EXCEPT !.stores = 2]
                  /\ UNCHANGED <<__irqVect, VICVECTCNTLn>>
                  /\ StepInside
             [] fgStep.stores = 2 ->
                  /\ __irqVect' = [__irqVect EXCEPT ![cntr] = fgStep.irq]
                  /\ call' = Call("pic_registerVectorIrq", fgStep.irq, fgStep.addr)
                  /\ ret' = cntr
                  /\ fgStep' = NoStep
                  /\ AllocHistory
                  /\ UNCHANGED <<VICVECTADDRn, VICVECTCNTLn>>
                  /\ StepFrame

\* The three stores of pic_registerVectorIrq, in program order, and the
\* return after the third.
RegisterStore ==
    /\ fgStep.fn = "pic_registerVectorIrq"
    /\ LET cntr == fgStep.slot
       IN  CASE fgStep.stores = 0 ->
                  /\ __irqVect' = [__irqVect EXCEPT ![cntr] = fgStep.irq]
                  /\ fgStep' = [fgStep EXCEPT !.stores = 1]
                  /\ UNCHANGED <<VICVECTADDRn, VICVECTCNTLn>>
                  /\ StepInside
             [] fgStep.stores = 1 ->
                  /\ VICVECTADDRn' = [VICVECTADDRn EXCEPT ![cntr] = fgStep.addr]
                  /\ fgStep' = [fgStep EXCEPT !.stores = 2]
                  /\ UNCHANGED <<__irqVect, VICVECTCNTLn>>
                  /\ StepInside
             [] fgStep.stores = 2 ->
                  /\ VICVECTCNTLn' = [VICVECTCNTLn EXCEPT ![cntr] = RegCntl(fgStep.irq)]
                  /\ call' = Call("pic_registerVectorIrq", fgStep.irq, fgStep.addr)
                  /\ ret' = cntr
                  /\ fgStep' = NoStep
                  /\ AllocHistory
                  /\ UNCHANGED <<__irqVect, VICVECTADDRn>>
                  /\ StepFrame

\* pic_unregisterVectorIrq(irq) with a valid argument enters its loop.
UnregisterBegin(irq) ==
    /\ Booted
    /\ pc = "idle"
    /\ fgStep = NoStep
    /\ irq < NR_INTERRUPTS
    /\ fgStep' = [NoStep EXCEPT !.fn = "pic_unregisterVectorIrq", !.irq = irq]
    /\ StepOnly

\* pic_unregisterAllVectorIrqs enters its loop.
UnregisterAllBegin ==
    /\ Booted
    /\ pc = "idle"
    /\ fgStep = NoStep
    /\ fgStep' = [NoStep EXCEPT !.fn = "pic_unregisterAllVectorIrqs"]
    /\ StepOnly

\* One step of the loop of pic_unregisterVectorIrq or of
\* pic_unregisterAllVectorIrqs: the loop test and the return, the skip of a
\* slot that holds another line, or one of the three stores to the slot.
UnregisterStep ==
    /\ fgStep.fn \in {"pic_unregisterVectorIrq", "pic_unregisterAllVectorIrqs"}
    /\ LET i == fgStep.slot
       IN  IF i >= NR_VECTORS
           THEN /\ call' = Call(fgStep.fn,
                                IF fgStep.fn = "pic_unregisterVectorIrq"
                                THEN fgStep.irq ELSE NoIrq, NoArg)
                /\ ret' = NoRet
                /\ fgStep' = NoStep
                /\ AllocHistory
                /\ UNCHANGED <<__irqVect, slotRegs>>
                /\ StepFrame
           ELSE IF /\ fgStep.fn = "pic_unregisterVectorIrq"
                   /\ fgStep.stores = 0
                   /\ fgStep.irq # __irqVect[i]
           THEN /\ fgStep' = [fgStep EXCEPT !.slot = i + 1]
                /\ StepOnly
           ELSE CASE fgStep.stores = 0 ->
                       /\ VICVECTCNTLn' = [VICVECTCNTLn EXCEPT ![i] = 0]
                       /\ fgStep' = [fgStep EXCEPT !.stores = 1]
                       /\ UNCHANGED <<__irqVect, VICVECTADDRn>>
                       /\ StepInside
                  [] fgStep.stores = 1 ->
                       /\ VICVECTADDRn' = [VICVECTADDRn EXCEPT ![i] = __irq_dummyISR]
                       /\ fgStep' = [fgStep EXCEPT !.stores = 2]
                       /\ UNCHANGED <<__irqVect, VICVECTCNTLn>>
                       /\ StepInside
                  [] fgStep.stores = 2 ->
                       /\ __irqVect' = [__irqVect EXCEPT ![i] = -1]
                       /\ fgStep' = [fgStep EXCEPT !.slot = i + 1, !.stores = 0]
                       /\ UNCHANGED slotRegs
                       /\ StepInside

\* A driver function called while no followed function is in progress.
Whole(op) == fgStep = NoStep /\ Api(op)

NextStores ==
    \/ Boot
    \/ \E irq \in StoreIrqs : \E addr \in StoreIsrs : RegisterBegin(irq, addr)
    \/ RegisterStore
    \/ \E irq \in StoreIrqs : UnregisterBegin(irq)
    \/ UnregisterAllBegin
    \/ UnregisterStep
    \/ \E irq \in StoreIrqs : Whole(pic_enableVectorIrq(irq))
    \/ \E irq \in StoreIrqs : Whole(pic_disableVectorIrq(irq))
    \/ Whole(pic_disableAllVectorIrqs)

SpecStores == Init /\ [][NextStores]_vars

\* C39: between any two stores of pic_registerVectorIrq,
\* pic_unregisterVectorIrq and pic_unregisterAllVectorIrqs, as between two
\* calls, a slot whose enable bit is set has its shadow entry equal to the
\* line in its control register and holds the address of an application
\* ISR or of the dummy routine.  The store that sets the enable bit of a
\* slot comes after the stores of the shadow entry and of the address, and
\* the store that empties a shadow entry after the stores that clear the
\* control register and put the dummy routine in the address register.
C39_EnabledSlotConsistent ==
    /\ [](\A s \in Slots :
            SlotEnabled(s) =>
               /\ __irqVect[s] = SlotLine(s)
               /\ VICVECTADDRn[s] \in StoreIsrs \cup {__irq_dummyISR})
    /\ [][\A s \in Slots :
            /\ (fgStep.fn = "pic_registerVectorIrq"
                   /\ VICVECTCNTLn'[s] # VICVECTCNTLn[s]) =>
                  /\ fgStep.stores = 2
                  /\ __irqVect[s] = fgStep.irq
                  /\ VICVECTADDRn[s] = fgStep.addr
                  /\ VICVECTCNTLn'[s] = fgStep.irq + BM_VECT_ENABLE_BIT
            /\ (fgStep.fn # "none" /\ __irqVect'[s] < 0 /\ __irqVect[s] >= 0) =>
                  /\ VICVECTCNTLn[s] = 0
                  /\ VICVECTADDRn[s] = __irq_dummyISR ]_vars

\* Line 4 is being bound again to the enabled slot that holds it: the new
\* address is in the address register and the control register has not
\* been written yet.
C39_Witness ==
    /\ fgStep.fn = "pic_registerVectorIrq"
    /\ fgStep.stores = 2
    /\ fgStep.irq = 4
    /\ fgStep.addr = isrB
    /\ SlotEnabled(fgStep.slot)
    /\ VICVECTCNTLn[fgStep.slot] = 4 + BM_VECT_ENABLE_BIT
    /\ __irqVect[fgStep.slot] = 4
    /\ VICVECTADDRn[fgStep.slot] = isrB
    /\ lastSlot[4] = fgStep.slot


\* C40: after the boot sequence's pic_init(), whenever no call of
\* pic_registerVectorIrq, pic_unregisterVectorIrq or
\* pic_unregisterAllVectorIrqs is in progress, a slot whose shadow entry
\* holds a line has that line in bits 0..4 of its control register and, in
\* its address register, the address given to the latest successful
\* pic_registerVectorIrq of the line; a slot whose shadow entry is empty has
\* control register 0.  pic_disableAllVectorIrqs clears bit 5 of the control
\* registers and changes no other bit of them, no address register and no
\* shadow entry.
C40_ShadowAgreesWithHardware ==
    /\ []((Booted /\ fgStep = NoStep) =>
            \A s \in Slots :
               /\ __irqVect[s] >= 0 =>
                     /\ SlotLine(s) = __irqVect[s]
                     /\ VICVECTCNTLn[s] \in {__irqVect[s], __irqVect[s] + BM_VECT_ENABLE_BIT}
                     /\ __irqVect[s] \in HistIrqs
                     /\ VICVECTADDRn[s] = lastIsr[__irqVect[s]]
                     /\ lastIsr[__irqVect[s]] # NULL
               /\ __irqVect[s] < 0 => VICVECTCNTLn[s] = 0)
    /\ [][(/\ fgStep = NoStep
           /\ fgStep' = NoStep
           /\ call'.fn = "pic_disableAllVectorIrqs") =>
              /\ __irqVect' = __irqVect
              /\ VICVECTADDRn' = VICVECTADDRn
              /\ \A s \in Slots :
                    /\ VICVECTCNTLn'[s] % BM_VECT_ENABLE_BIT
                          = VICVECTCNTLn[s] % BM_VECT_ENABLE_BIT
                    /\ VICVECTCNTLn'[s] \div (2 * BM_VECT_ENABLE_BIT)
                          = VICVECTCNTLn[s] \div (2 * BM_VECT_ENABLE_BIT)
                    /\ (VICVECTCNTLn'[s] \div BM_VECT_ENABLE_BIT) % 2 = 0 ]_vars

\* pic_disableAllVectorIrqs has returned: slot 0 holds line 4, disabled,
\* with the address of its second registration, slot 1 holds line 0,
\* disabled, and slot 2 is empty.
C40_Witness ==
    /\ fgStep = NoStep
    /\ call.fn = "pic_disableAllVectorIrqs"
    /\ __irqVect = (0 :> 4 @@ 1 :> 0 @@ 2 :> -1)
    /\ VICVECTCNTLn = (0 :> 4 @@ 1 :> 0 @@ 2 :> 0)
    /\ VICVECTADDRn[0] = isrB
    /\ lastIsr[4] = isrB
    /\ VICVECTADDRn[1] = isrA


(***************************************************************************)
(* The test tasks with the progress that the hardware guarantees, started *)
(* by the startup code that calls start() (Supervisor mode, so that       *)
(* irq_enableIrqMode does unmask IRQs).  The CPU executes the foreground's *)
(* next statement unless a trap is in progress, and the handler returns   *)
(* long before the timer's next period, so the foreground is not starved; *)
(* the CPU takes a pending IRQ that stays unmasked and runs the handler   *)
(* and the ISR to their end; the running timer reaches zero again and the *)
(* running RTC reaches its match value.                                    *)
(***************************************************************************)
TaskStep == pc = "idle" /\ NextTasks

HandlerStep ==
    \/ Trap(TrapEntry)
    \/ Trap(ScanStep)
    \/ Trap(VectRead)
    \/ Trap(VectWrite)
    \/ Trap(TrapExit)
    \/ timer0ISR
    \/ rtcISR

InitTasksLive == InitTrap /\ cpsr = StartCpsrEarlier

SpecTasksLive ==
    /\ InitTasksLive
    /\ [][NextTasks]_vars
    /\ SF_<<tpc, inCall>>(TaskStep)
    /\ WF_<<pc, scanIrq>>(HandlerStep)
    /\ WF_VICIRQSTATUS(LineRise(IRQ_TIMER0))
    /\ WF_VICIRQSTATUS(LineRise(IRQ_RTC))

\* The positions in Tests of the two wait loops and of the first statement
\* of rtcTest.
TimerWaitAt ==
    CHOOSE i \in 1 .. Len(Tests) : Tests[i] = Call("while", TickGoal, NoArg)
RtcTestAt ==
    CHOOSE i \in 1 .. Len(Tests) :
       /\ i > TimerWaitAt
       /\ Tests[i].fn = "pic_init"
RtcWaitAt ==
    CHOOSE i \in 1 .. Len(Tests) : i > RtcTestAt /\ Tests[i].fn = "while"

\* C36: in timerVectIrqTest, run with IRQs that irq_enableIrqMode does
\* unmask and a timer that holds line 4 until timer0ISR clears it, every
\* ISR that _pic_IrqHandler invokes is timer0ISR, read from VICVECTADDR; the
\* tick counter reaches the number the wait loop waits for and the loop is
\* left; the cleanup is reached, and after it line 4 is disabled, IRQs are
\* masked and the mode is non-vectored.
C36_VectoredTestCompletes ==
    /\ [](tpc < RtcTestAt =>
            /\ pc # "isr"
            /\ pc = "visr" => running = isrA
            /\ running \in {NULL, isrA})
    /\ <>(tpc = TimerWaitAt /\ __tick_cntr >= TickGoal)
    /\ <>(tpc > TimerWaitAt)
    /\ <>(tpc = RtcTestAt)
    /\ [](tpc = RtcTestAt =>
            /\ IRQ_TIMER0 \notin VICINTENABLE
            /\ IBit \subseteq cpsr
            /\ inFlight = 0
            /\ __irq_vector_mode = 0)

\* timerVectIrqTest has returned: line 4 is disabled, IRQs are masked, the
\* mode is non-vectored, the tick counter has been reset and slot 0 still
\* holds line 4 with timer0ISR.
C36_Witness ==
    /\ tpc = RtcTestAt
    /\ ~inCall
    /\ IRQ_TIMER0 \notin VICINTENABLE
    /\ IBit \subseteq cpsr
    /\ __irq_vector_mode = 0
    /\ __tick_cntr = 0
    /\ VICVECTCNTLn[0] = RegCntl(IRQ_TIMER0)
    /\ VICVECTADDRn[0] = isrA

\* C37: in rtcTest, once the RTC has raised line 10 rtcISR is invoked, and
\* the loop that waits for the tick counter to become non-zero is left,
\* whenever the interrupt comes: before or after the statement
\* __tick_cntr = 0 that follows the start of the RTC.
C37_RtcTestCompletes ==
    /\ (IRQ_RTC \in VICIRQSTATUS) ~> (pc = "isr" /\ running = isrB)
    /\ (IRQ_RTC \in VICIRQSTATUS) ~> (tpc > RtcWaitAt)

=============================================================================
